---- MODULE Spec2Model ----
(***************************************************************************)
(* Verification model of the GuruAI teaching assistant backend:            *)
(*   - the grade differentiation rule engine                               *)
(*     (agents/worksheet_processor/models/grade_differentiation.py),       *)
(*   - the textbook-image-to-worksheet pipeline                            *)
(*     (agents/worksheet_processor/tools.py),                              *)
(*   - the request router (agents/guruai_coordinator/agent.py).            *)
(* Python dicts are functions/records, lists are sequences, strings that   *)
(* the code parses are sequences of characters.                            *)
(***************************************************************************)
EXTENDS Integers, Sequences, FiniteSets, TLC

VARIABLES
    grade_characteristics,  \* GradeDifferentiationModel.grade_characteristics
    differentiation_rules,  \* GradeDifferentiationModel.differentiation_rules
    gd_call,                \* the last call made on the GradeDifferentiationModel
    gd_held,                \* the value that call returned, as the caller holds it
    gd_mutations,           \* number of changes the caller made to returned values
    pipe_pc,                \* position of process_textbook_image
    pipe_input,             \* its arguments
    stages,                 \* the stages it has run, in order
    pipe_extracted_content,     \* result of extract_text_from_image
    pipe_content_analysis,      \* result of analyze_content_complexity
    pipe_worksheets,        \* result of generate_differentiated_worksheets
    pipe_result,            \* the dictionary process_textbook_image returns
    coord_request,          \* the last process_request call: request context and intent
    coord_calls,            \* the specialist invocations it made, in order
    coord_result,           \* what process_request returned or raised
    hash_seed,              \* the interpreter's string hash seed (fixed per process)
    det_first,              \* a remembered run of a rule-engine function and its result
    det_repeat,             \* the result of the latest run with the same inputs
    det_calls,              \* runs made since the remembered one
    db,                     \* Firestore collection 'sessions': document id |-> document
    auto_ids,               \* number of auto-generated document ids handed out
    clock,                  \* datetime.utcnow()
    sess_call,              \* the last call of a function of auth/session.py and its outcome
    api_request,            \* the API request being answered
    api_response,           \* the response to it and what the handler did
    db_before,              \* the collection as it was when that request arrived
    chat_workers            \* the chat requests being served side by side

gd_vars == <<grade_characteristics, differentiation_rules, gd_call, gd_held, gd_mutations>>
pipe_vars == <<pipe_pc, pipe_input, stages, pipe_extracted_content,
               pipe_content_analysis, pipe_worksheets, pipe_result>>
coord_vars == <<coord_request, coord_calls, coord_result>>
proc_vars == <<hash_seed>>
det_vars == <<det_first, det_repeat, det_calls>>
store_vars == <<db, auto_ids, clock>>
api_vars == <<sess_call, api_request, api_response, db_before>>
chat_vars == <<chat_workers>>
vars == <<gd_vars, pipe_vars, coord_vars, proc_vars, det_vars, store_vars, api_vars,
          chat_vars>>

\* what the operations of one part leave alone
gd_frame == <<pipe_vars, coord_vars, proc_vars, det_vars, store_vars, api_vars,
              chat_vars>>
pipe_frame == <<gd_vars, coord_vars, proc_vars, det_vars, store_vars, api_vars,
                chat_vars>>
coord_frame == <<gd_vars, pipe_vars, proc_vars, det_vars, store_vars, api_vars,
                 chat_vars>>
det_frame == <<gd_call, gd_held, gd_mutations, pipe_vars, coord_vars, store_vars, api_vars,
               chat_vars>>
api_frame == <<gd_vars, pipe_vars, coord_vars, proc_vars, det_vars, chat_vars>>
chat_frame == <<gd_vars, pipe_vars, coord_vars, proc_vars, det_vars, auto_ids, sess_call,
                api_request, api_response, db_before>>

\* ------------------------------------------------------------------------
\* Bounds of the model
\* ------------------------------------------------------------------------
MaxContentLen == 2      \* words in a content string given to the rule engine
MaxGradeList == 2       \* grade levels in one request
MaxMutations == 1       \* caller changes to returned values
MaxRequired == 2        \* entries of an intent's required_agents list
MaxRequested == 2       \* grade-level strings in one worksheet request
MaxDetCalls == 2        \* runs counted after a remembered run
MaxDocs == 1            \* documents in the sessions collection
MaxHistory == 1         \* entries of one conversation history
MaxChatHistory == 2     \* entries of a history that concurrent chat requests fill
MaxClock == 1           \* last instant of the clock

\* Python's empty dict {}
EmptyDict == [k \in {} |-> "x"]

\* ========================================================================
\* Grade differentiation rule engine
\* ========================================================================

\* class GradeLevel(Enum): the enum values
GradeLevel ==
    {"grade_1", "grade_2", "grade_3", "grade_4", "grade_5", "grade_6", "grade_7", "grade_8"}

\* class ActivityType(Enum): member name |-> value
ActivityType ==
    [OBSERVATION |-> "observation",
     MATCHING |-> "matching",
     FILL_IN_BLANKS |-> "fill_in_blanks",
     SHORT_ANSWER |-> "short_answer",
     LONG_ANSWER |-> "long_answer",
     PROBLEM_SOLVING |-> "problem_solving",
     CREATIVE |-> "creative",
     HANDS_ON |-> "hands_on"]

\* _initialize_grade_characteristics: the GradeCharacteristics of GradeLevel.GRADE_1
Grade1Profile ==
    [grade_level |-> "grade_1",
     age_range |-> <<6, 7>>,
     attention_span_minutes |-> 10,
     vocabulary_level |-> "very_simple",
     reading_level |-> "very_simple",
     writing_ability |-> "very_simple",
     abstract_thinking |-> FALSE,
     preferred_activities |-> <<"OBSERVATION", "MATCHING", "HANDS_ON">>,
     learning_characteristics |->
        <<"Learn through play and games", "Need concrete examples",
          "Short attention spans", "Learn through repetition",
          "Prefer visual and tactile learning">>]

\* _initialize_grade_characteristics: the GradeCharacteristics of GradeLevel.GRADE_2
Grade2Profile ==
    [grade_level |-> "grade_2",
     age_range |-> <<7, 8>>,
     attention_span_minutes |-> 15,
     vocabulary_level |-> "simple",
     reading_level |-> "simple",
     writing_ability |-> "simple",
     abstract_thinking |-> FALSE,
     preferred_activities |-> <<"OBSERVATION", "MATCHING", "FILL_IN_BLANKS", "HANDS_ON">>,
     learning_characteristics |->
        <<"Beginning to read simple sentences", "Can write simple words",
          "Still need concrete examples", "Enjoy stories and songs",
          "Learn well in groups">>]

\* _initialize_grade_characteristics: the GradeCharacteristics of GradeLevel.GRADE_3
Grade3Profile ==
    [grade_level |-> "grade_3",
     age_range |-> <<8, 9>>,
     attention_span_minutes |-> 20,
     vocabulary_level |-> "simple",
     reading_level |-> "simple",
     writing_ability |-> "simple",
     abstract_thinking |-> FALSE,
     preferred_activities |->
        <<"SHORT_ANSWER", "MATCHING", "FILL_IN_BLANKS", "HANDS_ON", "CREATIVE">>,
     learning_characteristics |->
        <<"Can read simple paragraphs", "Beginning paragraph writing",
          "Starting to think logically", "Curious and ask many questions",
          "Learn through exploration">>]

\* _initialize_grade_characteristics: the GradeCharacteristics of GradeLevel.GRADE_4
Grade4Profile ==
    [grade_level |-> "grade_4",
     age_range |-> <<9, 10>>,
     attention_span_minutes |-> 25,
     vocabulary_level |-> "moderate",
     reading_level |-> "moderate",
     writing_ability |-> "simple",
     abstract_thinking |-> FALSE,
     preferred_activities |-> <<"SHORT_ANSWER", "PROBLEM_SOLVING", "CREATIVE", "HANDS_ON">>,
     learning_characteristics |->
        <<"Can read longer texts", "Writing skills developing",
          "Beginning analytical thinking", "Enjoy collaborative work",
          "Can follow multi-step instructions">>]

\* _initialize_grade_characteristics: the GradeCharacteristics of GradeLevel.GRADE_5
Grade5Profile ==
    [grade_level |-> "grade_5",
     age_range |-> <<10, 11>>,
     attention_span_minutes |-> 30,
     vocabulary_level |-> "moderate",
     reading_level |-> "moderate",
     writing_ability |-> "moderate",
     abstract_thinking |-> TRUE,
     preferred_activities |-> <<"SHORT_ANSWER", "LONG_ANSWER", "PROBLEM_SOLVING", "CREATIVE">>,
     learning_characteristics |->
        <<"Can understand complex texts", "Developing writing skills",
          "Beginning abstract reasoning", "Can work independently",
          "Understand cause and effect">>]

\* _initialize_grade_characteristics: the GradeCharacteristics of GradeLevel.GRADE_6
Grade6Profile ==
    [grade_level |-> "grade_6",
     age_range |-> <<11, 12>>,
     attention_span_minutes |-> 35,
     vocabulary_level |-> "moderate",
     reading_level |-> "complex",
     writing_ability |-> "moderate",
     abstract_thinking |-> TRUE,
     preferred_activities |-> <<"LONG_ANSWER", "PROBLEM_SOLVING", "CREATIVE">>,
     learning_characteristics |->
        <<"Can analyze and synthesize information", "Developing critical thinking",
          "Can handle abstract concepts", "Prefer challenging tasks",
          "Beginning to form personal opinions">>]

\* _initialize_grade_characteristics: the GradeCharacteristics of GradeLevel.GRADE_7
Grade7Profile ==
    [grade_level |-> "grade_7",
     age_range |-> <<12, 13>>,
     attention_span_minutes |-> 40,
     vocabulary_level |-> "complex",
     reading_level |-> "complex",
     writing_ability |-> "complex",
     abstract_thinking |-> TRUE,
     preferred_activities |-> <<"LONG_ANSWER", "PROBLEM_SOLVING", "CREATIVE">>,
     learning_characteristics |->
        <<"Strong analytical abilities", "Can handle complex concepts",
          "Developing research skills", "Can work on long-term projects",
          "Beginning metacognitive awareness">>]

\* _initialize_grade_characteristics: the GradeCharacteristics of GradeLevel.GRADE_8
Grade8Profile ==
    [grade_level |-> "grade_8",
     age_range |-> <<13, 14>>,
     attention_span_minutes |-> 45,
     vocabulary_level |-> "complex",
     reading_level |-> "very_complex",
     writing_ability |-> "complex",
     abstract_thinking |-> TRUE,
     preferred_activities |-> <<"LONG_ANSWER", "PROBLEM_SOLVING", "CREATIVE">>,
     learning_characteristics |->
        <<"Advanced critical thinking", "Can handle highly abstract concepts",
          "Strong research and analysis skills", "Can create original work",
          "Developing personal learning strategies">>]

\* _initialize_grade_characteristics with the last entry pasted from the one before it
MutInitGradeCharacteristics ==
    [grade_1 |-> Grade1Profile, grade_2 |-> Grade2Profile, grade_3 |-> Grade3Profile,
     grade_4 |-> Grade4Profile, grade_5 |-> Grade5Profile, grade_6 |-> Grade6Profile,
     grade_7 |-> Grade7Profile, grade_8 |-> Grade7Profile]

\* GradeDifferentiationModel._initialize_grade_characteristics
InitGradeCharacteristics ==
    [grade_1 |-> Grade1Profile, grade_2 |-> Grade2Profile, grade_3 |-> Grade3Profile,
     grade_4 |-> Grade4Profile, grade_5 |-> Grade5Profile, grade_6 |-> Grade6Profile,
     grade_7 |-> Grade7Profile, grade_8 |-> Grade8Profile]

\* GradeDifferentiationModel._initialize_differentiation_rules
InitDifferentiationRules ==
    [addition |->
        [concept |-> "addition",
         grade_adaptations |->
            [grade_1 |-> [approach |-> "concrete_objects", range |-> "1-10",
                          format |-> "pictures_and_symbols",
                          examples |-> "counting toys, fruits"],
             grade_2 |-> [approach |-> "visual_representation", range |-> "1-20",
                          format |-> "number_line",
                          examples |-> "adding school supplies"],
             grade_3 |-> [approach |-> "abstract_numbers", range |-> "1-100",
                          format |-> "vertical_addition",
                          examples |-> "money problems"]]],
     photosynthesis |->
        [concept |-> "photosynthesis",
         grade_adaptations |->
            [grade_2 |-> [approach |-> "plants_need_sunlight",
                          vocabulary |-> "simple_words",
                          activities |-> "observation_drawing"],
             grade_4 |-> [approach |-> "plants_make_food",
                          vocabulary |-> "basic_scientific_terms",
                          activities |-> "simple_experiments"],
             grade_6 |-> [approach |-> "chemical_process",
                          vocabulary |-> "scientific_terminology",
                          activities |-> "detailed_experiments"]]]]

\* Concepts asked about: the two with rules, and two without
Concepts == {"addition", "photosynthesis", "fractions", "Addition"}

\* Words of a content string
ContentWords == {"photosynthesis", "water"}

RECURSIVE SeqsUpTo(_, _)
\* all sequences over S of length at most n
SeqsUpTo(S, n) ==
    IF n = 0 THEN {<<>>}
    ELSE LET shorter == SeqsUpTo(S, n - 1)
         IN shorter \cup {Append(q, e) : q \in {r \in shorter : Len(r) = n - 1}, e \in S}

Contents == SeqsUpTo(ContentWords, MaxContentLen)
GradeLists == SeqsUpTo(GradeLevel, MaxGradeList)

\* GradeDifferentiationModel.get_grade_characteristics
GetGradeCharacteristics(tbl, grade_level) ==
    tbl[grade_level]

\* the replacements dict of _make_very_simple
Replacements ==
    [photosynthesis |-> "plants making food",
     multiplication |-> "adding many times",
     environment |-> "the place around us"]

\* GradeDifferentiationModel._make_very_simple
MakeVerySimple(content) ==
    [i \in DOMAIN content |->
        IF content[i] \in DOMAIN Replacements THEN Replacements[content[i]] ELSE content[i]]

\* GradeDifferentiationModel._make_simple
MakeSimple(content) == content

\* GradeDifferentiationModel._make_moderate
MakeModerate(content) == content

\* GradeDifferentiationModel._simplify_language
SimplifyLanguage(content, vocabulary_level) ==
    IF vocabulary_level = "very_simple" THEN MakeVerySimple(content)
    ELSE IF vocabulary_level = "simple" THEN MakeSimple(content)
    ELSE IF vocabulary_level = "moderate" THEN MakeModerate(content)
    ELSE content

\* GradeDifferentiationModel._get_teaching_approach
GetTeachingApproach(characteristics) ==
    IF ~characteristics.abstract_thinking THEN "concrete_hands_on"
    ELSE IF characteristics.grade_level \in {"grade_3", "grade_4", "grade_5"}
         THEN "visual_conceptual"
    ELSE "abstract_analytical"

\* GradeDifferentiationModel._get_assessment_method
GetAssessmentMethod(characteristics) ==
    IF characteristics.grade_level \in {"grade_1", "grade_2"} THEN "observation_based"
    ELSE IF characteristics.grade_level \in {"grade_3", "grade_4"} THEN "simple_written_tasks"
    ELSE "comprehensive_assessment"

\* adapt_content_for_grade whose rule lookup ignores the grade and falls back
\* to the concept's first rule
MutSpecificAdaptations(rules, concept, grade_level) ==
    IF concept \in DOMAIN rules
    THEN LET ga == rules[concept].grade_adaptations
         IN IF grade_level \in DOMAIN ga THEN ga[grade_level]
            ELSE ga[CHOOSE g \in DOMAIN ga : TRUE]
    ELSE EmptyDict

\* adapt_content_for_grade, lines 302-305: the rule of the concept for the grade, or {}
SpecificAdaptations(rules, concept, grade_level) ==
    IF concept \in DOMAIN rules /\ grade_level \in DOMAIN rules[concept].grade_adaptations
    THEN rules[concept].grade_adaptations[grade_level]
    ELSE EmptyDict

\* adapt_content_for_grade, lines 304-305 and 314: the fields of the result that are
\* the table's own objects and not copies
SharedFields(rules, concept, grade_level) ==
    {"learning_characteristics"} \cup
    (IF concept \in DOMAIN rules /\ grade_level \in DOMAIN rules[concept].grade_adaptations
     THEN {"specific_adaptations"} ELSE {})

\* adapt_content_for_grade that reports the upper age of the grade instead of its
\* attention span and lists the activity members without taking their values
MutAdaptContentForGrade(tbl, rules, content, concept, grade_level) ==
    LET characteristics == GetGradeCharacteristics(tbl, grade_level)
    IN [adapted_content |-> SimplifyLanguage(content, characteristics.vocabulary_level),
        recommended_activities |-> characteristics.preferred_activities,
        time_estimate |-> characteristics.age_range[2],
        teaching_approach |-> GetTeachingApproach(characteristics),
        assessment_method |-> GetAssessmentMethod(characteristics),
        specific_adaptations |-> SpecificAdaptations(rules, concept, grade_level),
        learning_characteristics |-> characteristics.learning_characteristics]

\* GradeDifferentiationModel.adapt_content_for_grade
AdaptContentForGrade(tbl, rules, content, concept, grade_level) ==
    LET characteristics == GetGradeCharacteristics(tbl, grade_level)
    IN [adapted_content |-> SimplifyLanguage(content, characteristics.vocabulary_level),
        recommended_activities |->
            [i \in DOMAIN characteristics.preferred_activities |->
                ActivityType[characteristics.preferred_activities[i]]],
        time_estimate |-> characteristics.attention_span_minutes,
        teaching_approach |-> GetTeachingApproach(characteristics),
        assessment_method |-> GetAssessmentMethod(characteristics),
        specific_adaptations |-> SpecificAdaptations(rules, concept, grade_level),
        learning_characteristics |-> characteristics.learning_characteristics]

\* the grades of a list, as a set
GradesOf(grade_levels) == {grade_levels[i] : i \in DOMAIN grade_levels}

\* GradeDifferentiationModel.get_multi_grade_adaptations
GetMultiGradeAdaptations(tbl, rules, content, concept, grade_levels) ==
    [g \in GradesOf(grade_levels) |-> AdaptContentForGrade(tbl, rules, content, concept, g)]

\* suggest_cross_grade_activities, lines 386-402
BaseActivities ==
    <<[name |-> "Group Discussion",
       description |-> "Discuss the concept with grade-appropriate questions",
       differentiation |-> "question_complexity"],
      [name |-> "Drawing Activity",
       description |-> "Visual representation of the concept",
       differentiation |-> "detail_level"],
      [name |-> "Hands-on Exploration",
       description |-> "Physical manipulation and exploration",
       differentiation |-> "complexity_of_materials"]>>

\* GradeDifferentiationModel.suggest_cross_grade_activities
SuggestCrossGradeActivities(tbl, concept, grade_levels) ==
    [i \in DOMAIN BaseActivities |->
        [name |-> BaseActivities[i].name,
         description |-> BaseActivities[i].description,
         differentiation |-> BaseActivities[i].differentiation,
         grade_adaptations |->
            [g \in GradesOf(grade_levels) |->
                LET characteristics == GetGradeCharacteristics(tbl, g)
                IN [time |-> characteristics.attention_span_minutes,
                    complexity |-> characteristics.vocabulary_level,
                    support_needed |->
                        IF ~characteristics.abstract_thinking THEN "high" ELSE "low"]]]]

\* No call made yet
NoCall == [op |-> "none"]
NoHeld == [kind |-> "none"]

\* GradeDifferentiationModel.__init__
GdInit ==
    /\ grade_characteristics = InitGradeCharacteristics
    /\ differentiation_rules = InitDifferentiationRules
    /\ gd_call = NoCall
    /\ gd_held = NoHeld
    /\ gd_mutations = 0

\* a caller calls get_grade_characteristics(grade_level)
CallGetGradeCharacteristics ==
    /\ gd_call = NoCall
    /\ \E g \in GradeLevel :
        /\ gd_call' = [op |-> "get_grade_characteristics", grade_level |-> g]
        /\ gd_held' = [kind |-> "characteristics",
                       value |-> GetGradeCharacteristics(grade_characteristics, g)]
    /\ UNCHANGED <<grade_characteristics, differentiation_rules, gd_mutations>>
    /\ UNCHANGED gd_frame

\* a caller calls adapt_content_for_grade(content, concept, grade_level)
CallAdaptContentForGrade ==
    /\ gd_call = NoCall
    /\ \E content \in Contents, concept \in Concepts, g \in GradeLevel :
        /\ gd_call' = [op |-> "adapt_content_for_grade", content |-> content,
                       concept |-> concept, grade_levels |-> <<g>>]
        /\ gd_held' = [kind |-> "adaptations",
                       value |-> [h \in {g} |->
                            AdaptContentForGrade(grade_characteristics, differentiation_rules,
                                                 content, concept, g)],
                       shared |-> [h \in {g} |->
                            SharedFields(differentiation_rules, concept, g)]]
    /\ UNCHANGED <<grade_characteristics, differentiation_rules, gd_mutations>>
    /\ UNCHANGED gd_frame

\* a caller calls get_multi_grade_adaptations(content, concept, grade_levels)
CallGetMultiGradeAdaptations ==
    /\ gd_call = NoCall
    /\ \E content \in Contents, concept \in Concepts, gl \in GradeLists :
        /\ gd_call' = [op |-> "get_multi_grade_adaptations", content |-> content,
                       concept |-> concept, grade_levels |-> gl]
        /\ gd_held' = [kind |-> "adaptations",
                       value |-> GetMultiGradeAdaptations(grade_characteristics,
                                    differentiation_rules, content, concept, gl),
                       shared |-> [h \in GradesOf(gl) |->
                            SharedFields(differentiation_rules, concept, h)]]
    /\ UNCHANGED <<grade_characteristics, differentiation_rules, gd_mutations>>
    /\ UNCHANGED gd_frame

\* a caller calls suggest_cross_grade_activities(concept, grade_levels)
CallSuggestCrossGradeActivities ==
    /\ gd_call = NoCall
    /\ \E concept \in Concepts, gl \in GradeLists :
        /\ gd_call' = [op |-> "suggest_cross_grade_activities", concept |-> concept,
                       grade_levels |-> gl]
        /\ gd_held' = [kind |-> "activities",
                       value |-> SuggestCrossGradeActivities(grade_characteristics, concept, gl)]
    /\ UNCHANGED <<grade_characteristics, differentiation_rules, gd_mutations>>
    /\ UNCHANGED gd_frame

\* Python dict update d[key] = value
DictSet(d, key, value) ==
    [k \in DOMAIN d \cup {key} |-> IF k = key THEN value ELSE d[k]]

\* The caller changes a list or dict inside a result of adapt_content_for_grade or
\* get_multi_grade_adaptations.  Lines 305 and 314 put the table's own dict and list
\* into the result, so a change to those fields is a change to the table object;
\* recommended_activities (line 309) and the {} of line 303 are fresh objects.
CallerMutate ==
    /\ gd_held.kind = "adaptations"
    /\ gd_mutations < MaxMutations
    /\ \E g \in DOMAIN gd_held.value,
          change \in {<<"specific_adaptations", "setitem">>,
                      <<"specific_adaptations", "clear">>,
                      <<"learning_characteristics", "append">>,
                      <<"recommended_activities", "append">>} :
        LET field == change[1]
            old == gd_held.value[g][field]
            new == IF change[2] = "setitem" THEN DictSet(old, "approach", "changed")
                   ELSE IF change[2] = "clear" THEN EmptyDict
                   ELSE Append(old, "changed")
            isShared == field \in gd_held.shared[g]
        IN /\ gd_held' = [gd_held EXCEPT !.value[g][field] = new]
           /\ differentiation_rules' =
                IF isShared /\ field = "specific_adaptations"
                THEN [differentiation_rules EXCEPT
                        ![gd_call.concept].grade_adaptations[g] = new]
                ELSE differentiation_rules
           /\ grade_characteristics' =
                IF isShared /\ field = "learning_characteristics"
                THEN [grade_characteristics EXCEPT ![g].learning_characteristics = new]
                ELSE grade_characteristics
    /\ gd_mutations' = gd_mutations + 1
    /\ UNCHANGED gd_call
    /\ UNCHANGED gd_frame

\* The caller lets go of the value it was given; the next call can be made
CallerRelease ==
    /\ gd_call # NoCall
    /\ gd_call' = NoCall
    /\ gd_held' = NoHeld
    /\ UNCHANGED <<grade_characteristics, differentiation_rules, gd_mutations>>
    /\ UNCHANGED gd_frame

\* The operations of GradeDifferentiationModel
GdNext ==
    \/ CallerRelease
    \/ CallGetGradeCharacteristics
    \/ CallAdaptContentForGrade
    \/ CallGetMultiGradeAdaptations
    \/ CallSuggestCrossGradeActivities

\* ========================================================================
\* Worksheet pipeline (agents/worksheet_processor/tools.py)
\* ========================================================================

\* The string "grade_"
GradePrefix == <<"g", "r", "a", "d", "e", "_">>

DigitChars == <<"0", "1", "2", "3", "4", "5", "6", "7", "8", "9">>

\* The grade-level strings given to the pipeline: "grade_1" .. "grade_8",
\* the coordinator's default "5", "grade_03" and the malformed "grade_x"
GradeLevelStrings ==
    {GradePrefix \o <<DigitChars[n + 1]>> : n \in 1..8}
    \cup {<<"5">>, GradePrefix \o <<"0", "3">>, GradePrefix \o <<"x">>}

GradeLevelLists == SeqsUpTo(GradeLevelStrings, MaxRequested)

RECURSIVE StrReplaceWithEmpty(_, _)
\* str.replace(old, ''): removes every occurrence of old, left to right
StrReplaceWithEmpty(str, old) ==
    IF Len(str) < Len(old) \/ Len(old) = 0 THEN str
    ELSE IF SubSeq(str, 1, Len(old)) = old
         THEN StrReplaceWithEmpty(SubSeq(str, Len(old) + 1, Len(str)), old)
         ELSE <<str[1]>> \o StrReplaceWithEmpty(Tail(str), old)

IsDigit(c) == \E i \in DOMAIN DigitChars : DigitChars[i] = c
DigitValue(c) == (CHOOSE i \in DOMAIN DigitChars : DigitChars[i] = c) - 1

RECURSIVE DigitsValue(_)
DigitsValue(str) ==
    IF str = <<>> THEN 0
    ELSE 10 * DigitsValue(SubSeq(str, 1, Len(str) - 1)) + DigitValue(str[Len(str)])

\* Python int(str) on a string of the characters used here: decimal digits with an
\* optional sign; anything else is a ValueError
PyInt(str) ==
    LET signed == Len(str) > 0 /\ str[1] \in {"+", "-"}
        digits == IF signed THEN Tail(str) ELSE str
    IN IF digits # <<>> /\ \A i \in DOMAIN digits : IsDigit(digits[i])
       THEN [ok |-> TRUE,
             value |-> IF signed /\ str[1] = "-" THEN 0 - DigitsValue(digits)
                       ELSE DigitsValue(digits)]
       ELSE [ok |-> FALSE, value |-> 0]

RECURSIVE PyStr(_)
\* Python str(n) / f"{n}" for n >= 0
PyStr(n) ==
    IF n < 10 THEN <<DigitChars[n + 1]>>
    ELSE PyStr(n \div 10) \o <<DigitChars[(n % 10) + 1]>>

\* generate_differentiated_worksheets line 207: int(grade_level.replace('grade_', ''))
GradeNum(grade_level) == PyInt(StrReplaceWithEmpty(grade_level, GradePrefix))

\* An f-string "<n> minutes", kept as the list its .split() gives
Minutes(n) == <<PyStr(n), "minutes">>

\* _extract_learning_objectives with a fallback of no objectives for a subject
\* that has no entry
MutExtractLearningObjectives(text, subject) ==
    IF subject = "mathematics"
    THEN <<"Understand basic mathematical concepts", "Apply problem-solving skills",
           "Use mathematical reasoning">>
    ELSE IF subject = "science"
    THEN <<"Observe natural phenomena", "Understand scientific concepts",
           "Develop inquiry skills">>
    ELSE IF subject = "general"
    THEN <<"Comprehend written content", "Apply knowledge to new situations",
           "Develop critical thinking">>
    ELSE <<>>

\* _extract_learning_objectives
ExtractLearningObjectives(text, subject) ==
    IF subject = "mathematics"
    THEN <<"Understand basic mathematical concepts", "Apply problem-solving skills",
           "Use mathematical reasoning">>
    ELSE IF subject = "science"
    THEN <<"Observe natural phenomena", "Understand scientific concepts",
           "Develop inquiry skills">>
    ELSE <<"Comprehend written content", "Apply knowledge to new situations",
           "Develop critical thinking">>

\* _generate_worksheet_title; the Hindi text of each title is written by its meaning
GenerateWorksheetTitle(subject, concept, grade) ==
    LET head == IF subject = "mathematics" THEN "Math practice - "
                ELSE IF subject = "science" THEN "Science exploration - "
                ELSE IF subject = "social_studies" THEN "Social studies - "
                ELSE "Study sheet - "
    IN <<head, concept, " (class ", PyStr(grade), ")">>

\* _adapt_learning_objectives
AdaptLearningObjectives(objectives, grade_num) ==
    [i \in DOMAIN objectives |->
        IF grade_num <= 2 THEN <<"Basic: ", objectives[i]>>
        ELSE IF grade_num <= 5 THEN <<"Intermediate: ", objectives[i]>>
        ELSE <<"Advanced: ", objectives[i]>>]

\* _create_early_primary_sections whose second section has no time_estimate
MutCreateEarlyPrimarySections(content, concepts, subject) ==
    <<[title |-> "Look and Tell",
       type |-> "observation",
       activities |->
          <<[instruction |-> "Look at the picture and answer the questions",
             questions |-> <<"What is this?", "What colour is it?", "Where is it found?">>,
             format |-> "oral_response"]>>,
       time_estimate |-> Minutes(10)],
      [title |-> "Match",
       type |-> "matching",
       activities |->
          <<[instruction |-> "Make the right pairs",
             format |-> "drawing_lines"]>>]>>

\* _create_early_primary_sections; Hindi strings are written by their meaning
CreateEarlyPrimarySections(content, concepts, subject) ==
    <<[title |-> "Look and Tell",
       type |-> "observation",
       activities |->
          <<[instruction |-> "Look at the picture and answer the questions",
             questions |-> <<"What is this?", "What colour is it?", "Where is it found?">>,
             format |-> "oral_response"]>>,
       time_estimate |-> Minutes(10)],
      [title |-> "Match",
       type |-> "matching",
       activities |->
          <<[instruction |-> "Make the right pairs",
             format |-> "drawing_lines"]>>,
       time_estimate |-> Minutes(15)]>>

\* _create_primary_sections
CreatePrimarySections(content, concepts, subject) ==
    <<[title |-> "Understand and Write",
       type |-> "comprehension",
       activities |->
          <<[instruction |-> "Read the paragraph and write the answers",
             questions |-> <<"What is the main topic?", "Write any three main points">>,
             format |-> "written_response"]>>,
       time_estimate |-> Minutes(20)],
      [title |-> "Practice",
       type |-> "application",
       activities |->
          <<[instruction |-> "Solve the given examples",
             format |-> "problem_solving"]>>,
       time_estimate |-> Minutes(25)]>>

\* _create_upper_primary_sections
CreateUpperPrimarySections(content, concepts, subject) ==
    <<[title |-> "Analyze",
       type |-> "analysis",
       activities |->
          <<[instruction |-> "Think deeply and answer",
             questions |-> <<"What are the causes and results?", "Give your opinion">>,
             format |-> "detailed_written_response"]>>,
       time_estimate |-> Minutes(25)],
      [title |-> "Apply",
       type |-> "application",
       activities |->
          <<[instruction |-> "How will you use this in real life?",
             format |-> "project_based"]>>,
       time_estimate |-> Minutes(30)]>>

\* generate_differentiated_worksheets lines 219-225 with the primary band ending at grade 4
MutSectionsForGrade(grade_num, content, key_concepts, subject) ==
    IF grade_num <= 2 THEN CreateEarlyPrimarySections(content, key_concepts, subject)
    ELSE IF grade_num <= 4 THEN CreatePrimarySections(content, key_concepts, subject)
    ELSE CreateUpperPrimarySections(content, key_concepts, subject)

\* generate_differentiated_worksheets lines 219-225: the sections by grade
SectionsForGrade(grade_num, content, key_concepts, subject) ==
    IF grade_num <= 2 THEN CreateEarlyPrimarySections(content, key_concepts, subject)
    ELSE IF grade_num <= 5 THEN CreatePrimarySections(content, key_concepts, subject)
    ELSE CreateUpperPrimarySections(content, key_concepts, subject)

\* _translate_worksheet_to_hindi
TranslateWorksheetToHindi(worksheet) ==
    [title_hindi |-> worksheet.title,
     instructions_hindi |-> "Hindi instructions would go here",
     notes |-> "Complete Hindi version available"]

\* _create_grade_appropriate_assessment
CreateGradeAppropriateAssessment(grade_num, subject) ==
    IF grade_num <= 2
    THEN [type |-> "observational",
          criteria |-> <<"Participation", "Understanding", "Effort">>,
          scale |-> "Excellent/Good/Needs Improvement"]
    ELSE [type |-> "rubric_based",
          criteria |-> <<"Content Knowledge", "Application", "Communication">>,
          scale |-> "4-point scale"]

\* _list_required_materials
ListRequiredMaterials(sections, grade_num) ==
    IF grade_num <= 2 THEN <<"paper", "pencil", "eraser", "crayons", "pictures">>
    ELSE <<"paper", "pencil", "eraser", "ruler", "colored pencils">>

RECURSIVE SumSectionMinutes(_)
\* _estimate_completion_time line 614: the sum of int(time_estimate.split()[0])
SumSectionMinutes(sections) ==
    IF sections = <<>> THEN 0
    ELSE LET section == Head(sections)
             time_estimate == IF "time_estimate" \in DOMAIN section
                              THEN section.time_estimate ELSE Minutes(20)
         IN PyInt(time_estimate[1]).value + SumSectionMinutes(Tail(sections))

\* _estimate_completion_time
EstimateCompletionTime(sections, grade_num) ==
    LET total_minutes == SumSectionMinutes(sections)
    IN Minutes(IF grade_num <= 2 THEN (total_minutes * 3) \div 2 ELSE total_minutes)

\* generate_differentiated_worksheets lines 207-240: the worksheet of one grade level
WorksheetFor(grade_level, content, content_analysis, language_preference) ==
    LET grade_num == GradeNum(grade_level).value
        subject == content_analysis.subject
        key_concepts == content_analysis.key_concepts
        sections == SectionsForGrade(grade_num, content, key_concepts, subject)
        base == [grade_level |-> grade_level,
                 title |-> GenerateWorksheetTitle(subject,
                              IF key_concepts # <<>> THEN key_concepts[1] ELSE "General",
                              grade_num),
                 learning_objectives |->
                     AdaptLearningObjectives(content_analysis.learning_objectives, grade_num),
                 sections |-> sections]
        hindi == IF language_preference \in {"hindi", "hindi_english"}
                 THEN [hindi_version |-> TranslateWorksheetToHindi(base)]
                 ELSE EmptyDict
    IN base @@ hindi @@
       [assessment |-> CreateGradeAppropriateAssessment(grade_num, subject),
        materials_needed |-> ListRequiredMaterials(sections, grade_num),
        estimated_time |-> EstimateCompletionTime(sections, grade_num)]

\* generate_differentiated_worksheets that makes one worksheet per grade band,
\* keyed by the first requested level of the band
MutGenerateDifferentiatedWorksheets(content, content_analysis, grade_levels, language_preference) ==
    IF \E i \in DOMAIN grade_levels : ~GradeNum(grade_levels[i]).ok
    THEN [status |-> "raised", error |-> "ValueError", value |-> EmptyDict]
    ELSE LET band(i) == LET n == GradeNum(grade_levels[i]).value
                        IN IF n <= 2 THEN 1 ELSE IF n <= 5 THEN 2 ELSE 3
             firsts == {i \in DOMAIN grade_levels :
                            \A j \in DOMAIN grade_levels : band(j) = band(i) => i <= j}
         IN [status |-> "ok", error |-> "",
             value |-> [g \in {grade_levels[i] : i \in firsts} |->
                 WorksheetFor(g, content, content_analysis, language_preference)]]

\* generate_differentiated_worksheets: a dict keyed by grade-level string, or the
\* ValueError of line 207 for a level that is not a number
GenerateDifferentiatedWorksheets(content, content_analysis, grade_levels, language_preference) ==
    IF \E i \in DOMAIN grade_levels : ~GradeNum(grade_levels[i]).ok
    THEN [status |-> "raised", error |-> "ValueError", value |-> EmptyDict]
    ELSE [status |-> "ok", error |-> "",
          value |-> [g \in {grade_levels[i] : i \in DOMAIN grade_levels} |->
              WorksheetFor(g, content, content_analysis, language_preference)]]

\* ------------------------------------------------------------------------
\* Text.  A text is the list of its whitespace-separated words.  The words used:
\*   "kyon" stands for a Devanagari word of five letters (the "why" of line 395),
\*   "+" is a word made of one special character, "grow." ends a sentence.
\* ------------------------------------------------------------------------
Hello9 == <<"hello", "hello", "hello", "hello", "hello", "hello", "hello", "hello", "hello">>

\* The full texts the OCR service may return (texts[0].description)
OcrTexts ==
    {<<"addition">>, <<"fractions">>, <<"plants", "grow.">>, <<"map">>, <<"hello">>, <<"+">>,
     <<"kyon", "hello">>, <<"why", "plants", "map">>, Hello9, Hello9 \o Hello9}

\* number of characters of a word
WordChars(w) ==
    CASE w = "addition" -> 8 [] w = "fractions" -> 9 [] w = "plants" -> 6 [] w = "map" -> 3 [] w = "why" -> 3
      [] w = "+" -> 1 [] OTHER -> 5

\* number of characters of a word matching [a-zA-Z]
EnglishChars(w) ==
    CASE w = "addition" -> 8 [] w = "fractions" -> 9 [] w = "plants" -> 6 [] w = "map" -> 3 [] w = "why" -> 3
      [] w = "hello" -> 5 [] w = "grow." -> 4 [] OTHER -> 0

\* number of characters of a word in the Devanagari block U+0900..U+097F
HindiChars(w) == IF w = "kyon" THEN 5 ELSE 0

\* number of characters of a word matching [.!?|] (the sentence enders of line 340)
SentenceEnders(w) == IF w = "grow." THEN 1 ELSE 0

\* the keywords, concepts and question words of tools.py that occur inside a word
Substrings(w) ==
    CASE w = "addition" -> {"addition"}
      [] w = "fractions" -> {"fractions"}
      [] w = "plants" -> {"plant", "plants"}
      [] w = "map" -> {"map"}
      [] w = "why" -> {"why"}
      [] w = "kyon" -> {"kyon"}
      [] w = "+" -> {"+"}
      [] OTHER -> {}

\* x in text, for a keyword x without spaces
InText(x, text) == \E i \in DOMAIN text : x \in Substrings(text[i])

RECURSIVE SumOver(_, _)
SumOver(Op(_), text) ==
    IF text = <<>> THEN 0 ELSE Op(Head(text)) + SumOver(Op, Tail(text))

RECURSIVE FilterSeq(_, _)
FilterSeq(Keep(_), q) ==
    IF q = <<>> THEN <<>>
    ELSE IF Keep(Head(q)) THEN <<Head(q)>> \o FilterSeq(Keep, Tail(q))
    ELSE FilterSeq(Keep, Tail(q))

\* _detect_language
DetectLanguage(text) ==
    LET hindi_chars == SumOver(HindiChars, text)
        english_chars == SumOver(EnglishChars, text)
    IN IF hindi_chars > english_chars THEN "hindi"
       ELSE IF english_chars > 0 THEN "english"
       ELSE "mixed"

\* _clean_extracted_text: the second substitution deletes every character outside
\* [\w\s.,;:!?()-] and the Devanagari block, which deletes the word "+" whole
CleanExtractedText(text) ==
    LET Kept(w) == w # "+" IN FilterSeq(Kept, text)

\* _extract_structured_content: no word used here holds "?" or a danda, so the
\* pattern of line 294 finds nothing
ExtractStructuredContent(text) ==
    [questions |-> <<>>, definitions |-> <<>>, examples |-> <<>>, key_points |-> <<>>]

\* _calculate_extraction_confidence, in hundredths; texts is the full text followed
\* by one annotation per word
CalculateExtractionConfidence(words) ==
    IF Len(words) < 1 THEN 0
    ELSE LET total_chars == SumOver(WordChars, words)
         IN IF total_chars >= 100 THEN 100 ELSE total_chars

\* What the Vision API may do for an image
OcrOutcomes ==
    {[kind |-> "exception", full_text |-> <<>>],
     [kind |-> "api_error", full_text |-> <<>>],
     [kind |-> "no_text", full_text |-> <<>>]}
    \cup {[kind |-> "text", full_text |-> t] : t \in OcrTexts}

\* extract_text_from_image; bounding boxes of text_regions are left out
ExtractTextFromImage(ocr) ==
    IF ocr.kind = "exception" THEN [error |-> "Text extraction failed: client"]
    ELSE IF ocr.kind = "api_error" THEN [error |-> "Text extraction failed: Vision API error"]
    ELSE IF ocr.kind = "no_text" THEN [error |-> "No text detected in image"]
    ELSE LET full_text == ocr.full_text
             processed_text == CleanExtractedText(full_text)
         IN [text |-> processed_text,
             raw_text |-> full_text,
             language |-> DetectLanguage(full_text),
             confidence |-> CalculateExtractionConfidence(full_text),
             structured_content |-> ExtractStructuredContent(processed_text),
             text_regions |-> [i \in DOMAIN full_text |-> [text |-> full_text[i]]]]

\* number of keywords of a list that occur in the text
Score(keywords, text) == Cardinality({k \in keywords : InText(k, text)})

\* _detect_subject_area
DetectSubjectArea(text) ==
    LET math_score == Score({"addition", "subtraction", "multiply", "divide", "equation",
                             "number", "=", "+", "-", "times sign", "division sign"}, text)
        science_score == Score({"experiment", "observation", "hypothesis", "plant",
                                "animal", "water", "air", "energy"}, text)
        social_score == Score({"history", "geography", "community", "government",
                               "culture", "society", "map"}, text)
        max_other == IF science_score >= social_score THEN science_score ELSE social_score
    IN IF math_score >= max_other THEN "mathematics"
       ELSE IF science_score >= social_score THEN "science"
       ELSE IF social_score > 0 THEN "social_studies"
       ELSE "general"

\* _calculate_text_complexity; the two rounded ratios are left out.
\* avg_sentence_length <= 8 is len(words) <= 8 * len(sentences)
CalculateTextComplexity(text) ==
    LET sentences == 1 + SumOver(SentenceEnders, text)
        words == Len(text)
    IN [overall_level |-> IF words <= 8 * sentences THEN "simple"
                          ELSE IF words <= 15 * sentences THEN "moderate"
                          ELSE "complex",
        total_words |-> words,
        unique_words |-> Cardinality({text[i] : i \in DOMAIN text})]

\* _extract_key_concepts; "water cycle" and "food chains" need two adjacent words
\* that no text here has
ExtractKeyConcepts(text, subject) ==
    LET Present(c) == InText(c, text)
        concepts ==
            IF subject = "mathematics"
            THEN FilterSeq(Present, <<"addition", "subtraction", "multiplication",
                                      "division", "fractions", "geometry">>)
            ELSE IF subject = "science"
            THEN FilterSeq(Present, <<"plants", "animals", "weather", "seasons">>)
            ELSE <<>>
    IN SubSeq(concepts, 1, IF Len(concepts) < 5 THEN Len(concepts) ELSE 5)

\* _determine_grade_levels
DetermineGradeLevels(complexity_metrics, subject) ==
    IF complexity_metrics.overall_level = "simple" THEN <<"grade_1", "grade_2", "grade_3">>
    ELSE IF complexity_metrics.overall_level = "moderate"
    THEN <<"grade_3", "grade_4", "grade_5">>
    ELSE <<"grade_5", "grade_6", "grade_7", "grade_8">>

\* _identify_question_types
IdentifyQuestionTypes(text) ==
    (IF InText("what", text) THEN <<"factual">> ELSE <<>>)
    \o (IF InText("why", text) \/ InText("kyon", text) THEN <<"analytical">> ELSE <<>>)
    \o (IF InText("how", text) THEN <<"procedural">> ELSE <<>>)

\* _analyze_language_complexity; the two rounded ratios are left out.  len(text)
\* counts the characters of the words and one space between two words;
\* ratio > 0.1 is 10 * chars > len(text)
AnalyzeLanguageComplexity(text) ==
    LET length == SumOver(WordChars, text) + (IF Len(text) > 0 THEN Len(text) - 1 ELSE 0)
    IN [multilingual |-> /\ length > 0
                         /\ 10 * SumOver(HindiChars, text) > length
                         /\ 10 * SumOver(EnglishChars, text) > length,
        complexity_level |-> "appropriate_for_multilingual_learners"]

\* The string hash seeds an interpreter may start with.  Python draws the seed at
\* process start; it fixes the iteration order of every set of strings for the
\* life of the process.
HashSeeds == {0, 1}

\* q without its repeated elements, in order of first occurrence
RECURSIVE Dedup(_)
Dedup(q) ==
    IF q = <<>> THEN <<>>
    ELSE LET front == Dedup(SubSeq(q, 1, Len(q) - 1))
             last == q[Len(q)]
         IN IF \E i \in DOMAIN front : front[i] = last THEN front ELSE Append(front, last)

\* list(set(result)) of lines 450 and 465: the distinct elements of result in the
\* iteration order of the set, which follows the hashes of the strings.  Two of
\* the orders the interpreter can produce are modelled: insertion order under one
\* seed and its reverse under the other.
ListOfSet(result, seed) ==
    LET d == Dedup(result)
    IN IF seed = 0 THEN d ELSE [i \in DOMAIN d |-> d[Len(d) + 1 - i]]

\* result.extend(table[concept.lower()]) for every concept that is a key of table
RECURSIVE ExtendAll(_, _)
ExtendAll(table, concepts) ==
    IF concepts = <<>> THEN <<>>
    ELSE (IF Head(concepts) \in DOMAIN table THEN table[Head(concepts)] ELSE <<>>)
         \o ExtendAll(table, Tail(concepts))

\* _identify_prerequisites
IdentifyPrerequisites(concepts, subject, seed) ==
    LET prerequisites == [multiplication |-> <<"addition", "counting">>,
                          fractions |-> <<"division", "parts_and_wholes">>,
                          plant_growth |-> <<"living_vs_nonliving", "basic_needs">>]
    IN ListOfSet(ExtendAll(prerequisites, concepts), seed)

\* _identify_extension_opportunities
IdentifyExtensionOpportunities(concepts, subject, seed) ==
    LET extensions == [addition |-> <<"word_problems", "multi_digit_addition">>,
                       plants |-> <<"plant_classification", "ecosystem_studies">>,
                       community |-> <<"local_government", "civic_responsibility">>]
    IN ListOfSet(ExtendAll(extensions, concepts), seed)

\* analyze_content_complexity; seed is the hash seed of the process that runs it
AnalyzeContentComplexity(text_content, subject_hint, seed) ==
    LET detected_subject == IF subject_hint = "auto" THEN DetectSubjectArea(text_content)
                            ELSE subject_hint
        complexity_metrics == CalculateTextComplexity(text_content)
        key_concepts == ExtractKeyConcepts(text_content, detected_subject)
    IN [subject |-> detected_subject,
        complexity_level |-> complexity_metrics.overall_level,
        complexity_metrics |-> complexity_metrics,
        key_concepts |-> key_concepts,
        suggested_grade_levels |-> DetermineGradeLevels(complexity_metrics, detected_subject),
        learning_objectives |-> ExtractLearningObjectives(text_content, detected_subject),
        existing_question_types |-> IdentifyQuestionTypes(text_content),
        language_complexity |-> AnalyzeLanguageComplexity(text_content),
        prerequisites |-> IdentifyPrerequisites(key_concepts, detected_subject, seed),
        extension_opportunities |->
            IdentifyExtensionOpportunities(key_concepts, detected_subject, seed)]

\* _extract_visual_elements
ExtractVisualElements(image_base64, subject) ==
    [diagrams |-> <<>>, charts |-> <<>>, illustrations |-> <<>>,
     recreatable_visuals |->
        <<[type |-> "simple_diagram",
           description |-> "Basic diagram that can be drawn on blackboard",
           materials |-> <<"chalk", "ruler">>,
           instructions |-> "Step-by-step drawing instructions"]>>]

\* _generate_teacher_notes
GenerateTeacherNotes(content_analysis, worksheets) ==
    [preparation_tips |->
        <<"Review key concepts before class", "Prepare visual aids from local materials",
          "Plan for different learning paces">>,
     implementation_strategies |->
        <<"Start with group discussion", "Use peer learning for mixed abilities",
          "Provide individual support as needed">>,
     common_challenges |->
        <<"Students may struggle with language",
          "Different grade levels need different support",
          "Limited resources require creativity">>,
     extension_ideas |->
        <<"Connect to local community examples", "Create hands-on activities",
          "Encourage student presentations">>]

\* _create_implementation_guide
CreateImplementationGuide(worksheets, grade_levels) ==
    [before_class |->
        <<"Print or write worksheets on blackboard", "Gather required materials",
          "Review content and anticipate questions">>,
     during_class |->
        <<"Introduce topic with familiar examples", "Distribute worksheets by grade level",
          "Circulate and provide individual support", "Facilitate peer learning">>,
     after_class |->
        <<"Review completed work", "Identify students needing extra help",
          "Plan follow-up activities">>,
     differentiation_tips |->
        [for_struggling_students |->
            <<"Provide additional examples", "Allow pair work",
              "Break tasks into smaller steps">>,
         for_advanced_students |->
            <<"Provide extension questions", "Encourage helping others",
              "Assign leadership roles">>]]

\* _create_assessment_rubrics, for grade levels that all are numbers
CreateAssessmentRubrics(content_analysis, grade_levels) ==
    [g \in {grade_levels[i] : i \in DOMAIN grade_levels} |->
        IF GradeNum(g).value <= 2
        THEN [participation |->
                [excellent |-> "Active participation", good |-> "Some participation",
                 needs_improvement |-> "Limited participation"],
              understanding |->
                [excellent |-> "Shows clear understanding",
                 good |-> "Shows basic understanding",
                 needs_improvement |-> "Needs support"]]
        ELSE [content_knowledge |->
                ("4" :> "Excellent") @@ ("3" :> "Good") @@ ("2" :> "Satisfactory")
                @@ ("1" :> "Needs Improvement"),
              application |->
                ("4" :> "Applies independently") @@ ("3" :> "Applies with guidance")
                @@ ("2" :> "Limited application") @@ ("1" :> "Cannot apply"),
              communication |->
                ("4" :> "Clear and detailed") @@ ("3" :> "Clear and adequate")
                @@ ("2" :> "Unclear but present") @@ ("1" :> "Minimal or unclear")]]

\* a Python dict or list that is falsy: the empty one
Falsy(v) == DOMAIN v = {}

\* no value assigned yet
Unset == [unset |-> TRUE]

\* process_textbook_image has not been called
PipeInit ==
    /\ pipe_pc = "idle"
    /\ pipe_input = Unset
    /\ stages = <<>>
    /\ pipe_extracted_content = Unset
    /\ pipe_content_analysis = Unset
    /\ pipe_worksheets = Unset
    /\ pipe_result = Unset

\* process_textbook_image is called (line 11)
PipeStart ==
    /\ pipe_pc = "idle"
    /\ \E grade_levels \in GradeLevelLists,
          subject_hint \in {"auto", "language"},
          language_preference \in {"hindi_english", "english"} :
        pipe_input' = [grade_levels |-> grade_levels, subject_hint |-> subject_hint,
                       language_preference |-> language_preference]
    /\ pipe_pc' = "extract"
    /\ stages' = <<>>
    /\ pipe_extracted_content' = Unset
    /\ pipe_content_analysis' = Unset
    /\ pipe_worksheets' = Unset
    /\ pipe_result' = Unset
    /\ UNCHANGED pipe_frame

\* lines 32-35 without the test of line 34
MutPipeExtract ==
    /\ pipe_pc = "extract"
    /\ \E ocr \in OcrOutcomes :
        /\ pipe_extracted_content' = ExtractTextFromImage(ocr)
        /\ pipe_pc' = "analyze"
        /\ pipe_result' = pipe_result
    /\ stages' = Append(stages, "extract")
    /\ UNCHANGED <<pipe_input, pipe_content_analysis, pipe_worksheets>>
    /\ UNCHANGED pipe_frame

\* Step 1, lines 32-35: extract_text_from_image, and the early return when it
\* gave nothing or an error
PipeExtract ==
    /\ pipe_pc = "extract"
    /\ \E ocr \in OcrOutcomes :
        LET extracted_content == ExtractTextFromImage(ocr)
        IN /\ pipe_extracted_content' = extracted_content
           /\ IF Falsy(extracted_content)
                 \/ ("error" \in DOMAIN extracted_content /\ extracted_content.error # "")
              THEN /\ pipe_result' = [error |-> "Failed to extract text from image",
                                      details |-> extracted_content]
                   /\ pipe_pc' = "returned"
              ELSE /\ pipe_result' = pipe_result
                   /\ pipe_pc' = "analyze"
    /\ stages' = Append(stages, "extract")
    /\ UNCHANGED <<pipe_input, pipe_content_analysis, pipe_worksheets>>
    /\ UNCHANGED pipe_frame

\* Step 2, lines 38-41: analyze_content_complexity; a KeyError of
\* extracted_content['text'] is caught at lines 69-73
PipeAnalyze ==
    /\ pipe_pc = "analyze"
    /\ IF "text" \in DOMAIN pipe_extracted_content
       THEN /\ pipe_content_analysis' =
                AnalyzeContentComplexity(pipe_extracted_content.text,
                                         pipe_input.subject_hint, hash_seed)
            /\ pipe_pc' = "generate"
            /\ pipe_result' = pipe_result
       ELSE /\ pipe_content_analysis' = pipe_content_analysis
            /\ pipe_result' = [error |-> "Image processing failed: KeyError",
                               status |-> "failed"]
            /\ pipe_pc' = "returned"
    /\ stages' = Append(stages, "analyze")
    /\ UNCHANGED <<pipe_input, pipe_extracted_content, pipe_worksheets>>
    /\ UNCHANGED pipe_frame

\* Step 3 outside the try block: the ValueError of
\* generate_differentiated_worksheets leaves process_textbook_image
MutPipeGenerate ==
    /\ pipe_pc = "generate"
    /\ LET generated == GenerateDifferentiatedWorksheets(
                            pipe_extracted_content.text, pipe_content_analysis,
                            pipe_input.grade_levels, pipe_input.language_preference)
       IN /\ pipe_worksheets' = generated
          /\ IF generated.status = "raised"
             THEN /\ pipe_result' = [raised |-> "ValueError"]
                  /\ pipe_pc' = "returned"
             ELSE /\ pipe_result' = pipe_result
                  /\ pipe_pc' = "finish"
    /\ stages' = Append(stages, "generate")
    /\ UNCHANGED <<pipe_input, pipe_extracted_content, pipe_content_analysis>>
    /\ UNCHANGED pipe_frame

\* Step 3, lines 44-49: generate_differentiated_worksheets; its ValueError is caught
\* at lines 69-73
PipeGenerate ==
    /\ pipe_pc = "generate"
    /\ LET generated == GenerateDifferentiatedWorksheets(
                            pipe_extracted_content.text, pipe_content_analysis,
                            pipe_input.grade_levels, pipe_input.language_preference)
       IN /\ pipe_worksheets' = generated
          /\ IF generated.status = "raised"
             THEN /\ pipe_result' = [error |-> "Image processing failed: ValueError",
                                     status |-> "failed"]
                  /\ pipe_pc' = "returned"
             ELSE /\ pipe_result' = pipe_result
                  /\ pipe_pc' = "finish"
    /\ stages' = Append(stages, "generate")
    /\ UNCHANGED <<pipe_input, pipe_extracted_content, pipe_content_analysis>>
    /\ UNCHANGED pipe_frame

\* Step 4 and the return, lines 52-67
PipeFinish ==
    /\ pipe_pc = "finish"
    /\ pipe_result' =
        [status |-> "success",
         original_content |->
            [extracted_text |-> pipe_extracted_content.text,
             detected_language |-> pipe_extracted_content.language,
             confidence |-> pipe_extracted_content.confidence],
         content_analysis |-> pipe_content_analysis,
         worksheets |-> pipe_worksheets.value,
         visual_elements |-> ExtractVisualElements("image", pipe_content_analysis.subject),
         teacher_notes |-> GenerateTeacherNotes(pipe_content_analysis, pipe_worksheets.value),
         implementation_guide |->
            CreateImplementationGuide(pipe_worksheets.value, pipe_input.grade_levels),
         assessment_rubrics |->
            CreateAssessmentRubrics(pipe_content_analysis, pipe_input.grade_levels)]
    /\ pipe_pc' = "returned"
    /\ UNCHANGED <<pipe_input, stages, pipe_extracted_content, pipe_content_analysis,
                   pipe_worksheets>>
    /\ UNCHANGED pipe_frame

\* The caller has taken the returned dictionary; the function can be called again
PipeReturn ==
    /\ pipe_pc = "returned"
    /\ pipe_pc' = "idle"
    /\ pipe_input' = Unset
    /\ stages' = <<>>
    /\ pipe_extracted_content' = Unset
    /\ pipe_content_analysis' = Unset
    /\ pipe_worksheets' = Unset
    /\ pipe_result' = Unset
    /\ UNCHANGED pipe_frame

\* process_textbook_image
PipeNext ==
    \/ PipeReturn
    \/ PipeStart
    \/ PipeExtract
    \/ PipeAnalyze
    \/ PipeGenerate
    \/ PipeFinish

\* GuruAICoordinator has not been asked anything
CoordInit ==
    /\ coord_request = Unset
    /\ coord_calls = <<>>
    /\ coord_result = Unset

\* The interpreter has started: the hash seed is drawn
ProcInit ==
    hash_seed \in HashSeeds

\* No run of a rule-engine function is remembered
DetInit ==
    /\ det_first = Unset
    /\ det_repeat = Unset
    /\ det_calls = 0

\* The sessions collection is empty and no request has arrived
StoreInit ==
    /\ db = EmptyDict
    /\ auto_ids = 0
    /\ clock = 0

\* No session function has been called and no request has arrived
ApiInit ==
    /\ sess_call = Unset
    /\ api_request = Unset
    /\ api_response = Unset
    /\ db_before = EmptyDict

\* The server threads that answer chat requests side by side (app.run serves
\* each request in a thread of its own)
Workers == {1, 2}

\* A thread between two requests
IdleWorker ==
    [pc |-> "idle", user_id |-> <<>>, session_id |-> <<>>,
     message |-> [role |-> "", content |-> ""],
     timestamp |-> 0, appended |-> <<>>, status |-> 0]

\* No chat request is being served
ChatInit == chat_workers = [p \in Workers |-> IdleWorker]

Init ==
    /\ GdInit /\ PipeInit /\ CoordInit /\ ProcInit /\ DetInit /\ StoreInit /\ ApiInit
    /\ ChatInit

\* The rule engine used through its methods
SpecGrade == Init /\ [][GdNext]_vars

\* The operations of GradeDifferentiationModel and a caller that changes the values
\* they returned
GdCallerNext ==
    \/ CallerRelease
    \/ CallGetGradeCharacteristics
    \/ CallAdaptContentForGrade
    \/ CallGetMultiGradeAdaptations
    \/ CallSuggestCrossGradeActivities
    \/ CallerMutate

\* The rule engine with a caller that also changes the values it was given
SpecGradeCaller == Init /\ [][GdCallerNext]_vars

\* The worksheet pipeline
SpecWorksheet == Init /\ [][PipeNext]_vars

\* ========================================================================
\* Properties
\* ========================================================================

\* The grade bands of the glossary: early primary 1-2, primary 3-5, upper primary 6-8
BandOfGrade(n) ==
    IF n \in 1..2 THEN "early_primary"
    ELSE IF n \in 3..5 THEN "primary"
    ELSE IF n \in 6..8 THEN "upper_primary"
    ELSE "none"

\* the grade number of a GradeLevel
NumberOfGradeLevel(g) ==
    CHOOSE n \in 1..8 : g = "grade_" \o ToString(n)

IsPrefix(p, q) == Len(p) <= Len(q) /\ SubSeq(q, 1, Len(p)) = p

Occurrences(q, x) == Cardinality({i \in DOMAIN q : q[i] = x})

ExtractionFailed ==
    /\ pipe_extracted_content # Unset
    /\ \/ Falsy(pipe_extracted_content)
       \/ "error" \in DOMAIN pipe_extracted_content

\* C2: in every run of process_textbook_image the stages run in the order extraction,
\* analysis, worksheet synthesis; extraction runs exactly once per image; and when
\* extraction gave nothing or an error, neither analysis nor synthesis is run.
C2_StageOrder ==
    /\ IsPrefix(stages, <<"extract", "analyze", "generate">>)
    /\ Occurrences(stages, "extract") <= 1
    /\ pipe_pc \in {"analyze", "generate", "finish", "returned"}
          => Occurrences(stages, "extract") = 1
    /\ ExtractionFailed =>
          /\ stages = <<"extract">>
          /\ pipe_pc = "returned"
          /\ pipe_content_analysis = Unset
          /\ pipe_worksheets = Unset
          /\ "worksheets" \notin DOMAIN pipe_result

\* a complete run: all three stages in order, and the success dictionary returned
C2_Witness ==
    /\ pipe_pc = "returned"
    /\ stages = <<"extract", "analyze", "generate">>
    /\ pipe_result.status = "success"

\* the grade-level strings of the request in progress
Requested == {pipe_input.grade_levels[i] : i \in DOMAIN pipe_input.grade_levels}

Generated == pipe_worksheets # Unset /\ pipe_worksheets.status = "ok"

\* C3 as stated: the number of worksheets returned equals the number of distinct
\* grade bands covered by the requested grades.
C3_OnePerBand ==
    Generated =>
        Cardinality(DOMAIN pipe_worksheets.value)
            = Cardinality({BandOfGrade(GradeNum(g).value) : g \in Requested})

\* C3 amended: generate_differentiated_worksheets returns one worksheet per distinct
\* requested grade-level string, keyed by that string and made for that level; it
\* returns none when a requested level is not a number.
C3_OnePerRequestedLevel ==
    /\ Generated =>
        /\ DOMAIN pipe_worksheets.value = Requested
        /\ Cardinality(DOMAIN pipe_worksheets.value) = Cardinality(Requested)
        /\ \A g \in Requested : pipe_worksheets.value[g].grade_level = g
        /\ \A g \in Requested : GradeNum(g).ok
    /\ (pipe_worksheets # Unset /\ pipe_worksheets.status = "raised") =>
        /\ pipe_worksheets.value = EmptyDict
        /\ \E g \in Requested : ~GradeNum(g).ok

\* two requested levels of one band, and two worksheets
C3_Witness ==
    /\ Generated
    /\ pipe_input.grade_levels = <<GradePrefix \o <<"3">>, GradePrefix \o <<"4">>>>
    /\ Cardinality(DOMAIN pipe_worksheets.value) = 2

\* C4: every worksheet emitted by generate_differentiated_worksheets, for every
\* subject, key-concept list (also the empty one) and requested grade 1-8, carries a
\* title, a non-empty list of learning objectives, a non-empty list of sections, an
\* assessment rubric and a time estimate.
C4_WorksheetComplete ==
    Generated =>
        \A g \in DOMAIN pipe_worksheets.value :
            LET w == pipe_worksheets.value[g]
            IN /\ {"title", "learning_objectives", "sections", "assessment",
                   "estimated_time"} \subseteq DOMAIN w
               /\ w.title # <<>>
               /\ w.learning_objectives # <<>>
               /\ w.sections # <<>>
               /\ {"type", "criteria", "scale"} \subseteq DOMAIN w.assessment
               /\ w.assessment.criteria # <<>>
               /\ PyInt(w.estimated_time[1]).ok
               /\ PyInt(w.estimated_time[1]).value > 0

\* worksheets for a subject without objectives of its own and with no key concept
C4_Witness ==
    /\ Generated
    /\ pipe_content_analysis.subject = "language"
    /\ pipe_content_analysis.key_concepts = <<>>
    /\ Cardinality(DOMAIN pipe_worksheets.value) = 2

\* the sections of all worksheets generated
AllSections ==
    IF Generated
    THEN UNION {{pipe_worksheets.value[g].sections[i] :
                    i \in DOMAIN pipe_worksheets.value[g].sections} :
                g \in DOMAIN pipe_worksheets.value}
    ELSE {}

\* C5 as stated: every section has a title, an activity type, instructions, a
\* question list and an estimated time (the last three looked for in the section
\* or in one of its activities).
C5_AllFiveFields ==
    \A section \in AllSections :
        /\ {"title", "type", "time_estimate"} \subseteq DOMAIN section
        /\ \E i \in DOMAIN section.activities :
                "instruction" \in DOMAIN section.activities[i]
        /\ \E i \in DOMAIN section.activities :
                "questions" \in DOMAIN section.activities[i]

\* C5 amended: every section has a title, an activity type, an estimated time and
\* a non-empty activity list; every activity has an instruction and a format; the
\* first section of a worksheet has a non-empty question list in its activity and
\* the second section has no question list.
C5_SectionFields ==
    /\ \A section \in AllSections :
        /\ DOMAIN section = {"title", "type", "activities", "time_estimate"}
        /\ section.activities # <<>>
        /\ PyInt(section.time_estimate[1]).ok
        /\ \A i \in DOMAIN section.activities :
                {"instruction", "format"} \subseteq DOMAIN section.activities[i]
    /\ Generated =>
        \A g \in DOMAIN pipe_worksheets.value :
            LET sections == pipe_worksheets.value[g].sections
            IN /\ Len(sections) = 2
               /\ "questions" \in DOMAIN sections[1].activities[1]
               /\ sections[1].activities[1].questions # <<>>
               /\ \A i \in DOMAIN sections[2].activities :
                    "questions" \notin DOMAIN sections[2].activities[i]

\* worksheets of an early primary and an upper primary grade
C5_Witness ==
    /\ Generated
    /\ pipe_input.grade_levels = <<GradePrefix \o <<"1">>, GradePrefix \o <<"8">>>>
    /\ Cardinality(AllSections) = 4

\* C6: sections are determined by the grade band alone: two requested grades of the
\* same band get identical section lists, grades of different bands different ones.
C6_SectionsByBand ==
    Generated =>
        \A g1, g2 \in DOMAIN pipe_worksheets.value :
            LET n1 == GradeNum(g1).value
                n2 == GradeNum(g2).value
            IN (n1 \in 1..8 /\ n2 \in 1..8) =>
                ((BandOfGrade(n1) = BandOfGrade(n2))
                    <=> (pipe_worksheets.value[g1].sections
                            = pipe_worksheets.value[g2].sections))

\* grades 5 and 6: neighbours in different bands
C6_Witness ==
    /\ Generated
    /\ pipe_input.grade_levels = <<GradePrefix \o <<"5">>, GradePrefix \o <<"6">>>>
    /\ pipe_worksheets.value[GradePrefix \o <<"5">>].sections
          # pipe_worksheets.value[GradePrefix \o <<"6">>].sections

\* C7 as stated: any two grades of the same band get the same teaching approach and
\* the same assessment method from adapt_content_for_grade.
C7_BandSharesProfile ==
    gd_held.kind = "adaptations" =>
        \A g1, g2 \in DOMAIN gd_held.value :
            BandOfGrade(NumberOfGradeLevel(g1)) = BandOfGrade(NumberOfGradeLevel(g2)) =>
                /\ gd_held.value[g1].teaching_approach = gd_held.value[g2].teaching_approach
                /\ gd_held.value[g1].assessment_method = gd_held.value[g2].assessment_method

\* C8: the GradeProfile table has exactly 8 entries, one for each of grades 1 to 8,
\* the profile stored under a grade carries that grade id, and
\* get_grade_characteristics returns the profile of the grade asked for.
C8_GradeProfileTable ==
    /\ DOMAIN grade_characteristics = GradeLevel
    /\ Cardinality(DOMAIN grade_characteristics) = 8
    /\ \A g \in GradeLevel : grade_characteristics[g].grade_level = g
    /\ \A g, h \in GradeLevel :
            g # h => grade_characteristics[g] # grade_characteristics[h]
    /\ gd_call.op = "get_grade_characteristics" =>
            gd_held.value.grade_level = gd_call.grade_level

\* the profile of the last grade was asked for and returned
C8_Witness ==
    /\ gd_call.op = "get_grade_characteristics"
    /\ gd_call.grade_level = "grade_8"
    /\ gd_held.value.attention_span_minutes = 45

\* C9 as stated: after any calls and any change a caller makes to the returned
\* values, the grade-profile table and the differentiation-rule table equal their
\* initial contents.
C9_TablesReadOnly ==
    /\ grade_characteristics = InitGradeCharacteristics
    /\ differentiation_rules = InitDifferentiationRules

AdaptationFields ==
    {"adapted_content", "recommended_activities", "time_estimate", "teaching_approach",
     "assessment_method", "specific_adaptations", "learning_characteristics"}

\* C10: for every concept and grade adapt_content_for_grade returns a complete
\* adaptation; specific_adaptations is non-empty exactly when the concept has an
\* entry for that grade; every other field is the same as for any other concept at
\* that grade.
C10_SparseFallback ==
    gd_call.op = "adapt_content_for_grade" =>
        LET g == gd_call.grade_levels[1]
            result == gd_held.value[g]
            hasEntry == /\ gd_call.concept \in DOMAIN differentiation_rules
                        /\ g \in DOMAIN differentiation_rules[gd_call.concept].grade_adaptations
        IN /\ DOMAIN result = AdaptationFields
           /\ (result.specific_adaptations # EmptyDict) <=> hasEntry
           /\ \A other \in Concepts :
                LET r2 == AdaptContentForGrade(grade_characteristics, differentiation_rules,
                                               gd_call.content, other, g)
                IN \A f \in AdaptationFields \ {"specific_adaptations"} : r2[f] = result[f]

\* a concept with rules asked at a grade it has no rule for: the fallback
C10_Witness ==
    /\ gd_call.op = "adapt_content_for_grade"
    /\ gd_call.concept = "addition"
    /\ gd_call.grade_levels = <<"grade_4">>
    /\ gd_held.value["grade_4"].specific_adaptations = EmptyDict
    /\ gd_held.value["grade_4"].time_estimate = 25

\* C11: for every grade, the adaptation returned by adapt_content_for_grade (alone
\* or through get_multi_grade_adaptations) has time_estimate equal to the grade's
\* attention_span_minutes and recommended_activities equal to the values of the
\* grade's preferred_activities, in the same order.
C11_AdaptsToProfile ==
    gd_held.kind = "adaptations" =>
        \A g \in DOMAIN gd_held.value :
            LET result == gd_held.value[g]
                profile == grade_characteristics[g]
            IN /\ result.time_estimate = profile.attention_span_minutes
               /\ Len(result.recommended_activities) = Len(profile.preferred_activities)
               /\ \A i \in DOMAIN profile.preferred_activities :
                    result.recommended_activities[i] =
                        ActivityType[profile.preferred_activities[i]]

\* grade 3, whose five activities are not in the enum's order, was adapted
C11_Witness ==
    /\ gd_call.op = "adapt_content_for_grade"
    /\ gd_call.grade_levels = <<"grade_3">>
    /\ gd_held.value["grade_3"].time_estimate = 20
    /\ gd_held.value["grade_3"].recommended_activities =
            <<"short_answer", "matching", "fill_in_blanks", "hands_on", "creative">>

\* C16: process_textbook_image never raises; what it returns is a dictionary that
\* either has status 'success' with a 'worksheets' entry and no 'error' key, or has
\* an 'error' key and no 'worksheets' entry.
C16_NeverRaises ==
    pipe_pc = "returned" =>
        /\ "raised" \notin DOMAIN pipe_result
        /\ \/ /\ "status" \in DOMAIN pipe_result
              /\ pipe_result.status = "success"
              /\ "worksheets" \in DOMAIN pipe_result
              /\ "error" \notin DOMAIN pipe_result
           \/ /\ "error" \in DOMAIN pipe_result
              /\ "worksheets" \notin DOMAIN pipe_result

\* text was extracted and analysed, a requested grade level was malformed, and the
\* call returned the error dictionary
C16_Witness ==
    /\ pipe_pc = "returned"
    /\ stages = <<"extract", "analyze", "generate">>
    /\ pipe_worksheets.status = "raised"
    /\ \E i \in DOMAIN pipe_input.grade_levels :
            pipe_input.grade_levels[i] = GradePrefix \o <<"x">>
    /\ pipe_result.status = "failed"

\* ========================================================================
\* Request router (agents/guruai_coordinator/agent.py)
\* ========================================================================

\* Python None
None == [none |-> TRUE]

\* dict.get(key, default)
DictGet(d, key, default) == IF key \in DOMAIN d THEN d[key] ELSE default

\* The specialists GuruAICoordinator.__init__ creates (lines 18-22)
Specialists ==
    {"content_generator", "knowledge_base", "visual_aid_generator", "assessment_planner",
     "worksheet_processor"}

\* primary_intent values the model may answer: the five of the prompt (line 99)
\* and one outside them
PrimaryIntents == {"content", "knowledge", "visual", "assessment", "worksheet", "other"}

\* names the model may list in required_agents: the specialists and a response key
RequiredNames == Specialists \cup {"content"}

\* the parameters entry of an intent
ParameterDicts == {EmptyDict, [subject |-> "science", duration |-> 3]}

\* What eval(response.text) of _determine_intent may be: required_agents and
\* parameters may be missing
Intents ==
    {[primary_intent |-> p] @@ r @@ q :
        p \in PrimaryIntents,
        r \in {EmptyDict} \cup {[required_agents |-> a] : a \in SeqsUpTo(RequiredNames, MaxRequired)},
        q \in {EmptyDict} \cup {[parameters |-> d] : d \in ParameterDicts}}

\* The context argument of process_request
Contexts ==
    {None, EmptyDict,
     [language |-> "hindi", grade_levels |-> <<"3", "4">>, subject |-> "science"],
     [grade_levels |-> <<>>], [language |-> "hindi"]}

\* the calls of one request that raise, by their position among the calls made
FailureSets == SUBSET (1..(MaxRequired + 1))

\* What a specialist method returns: its result dictionary carries the arguments
\* (local_content_generator/agent.py 75-81, knowledge_base/agent.py 76-82,
\* visual_aid_generator/agent.py 92-98, assessment_planner/agent.py 105-111)
AgentResult(agent, method, args) == [agent |-> agent, method |-> method, args |-> args]

\* One awaited specialist call: state is [status, responses, calls]; the call is
\* appended to calls, and either raises or stores its result under key
Invoke(st, fails, key, agent, method, args) ==
    LET raises == (Len(st.calls) + 1) \in fails
        calls == Append(st.calls, [agent |-> agent, method |-> method, args |-> args,
                                   raised |-> raises])
    IN IF raises
       THEN [status |-> "raised", error |-> "specialist", responses |-> st.responses,
             calls |-> calls]
       ELSE [status |-> "ok", error |-> "",
             responses |-> DictSet(st.responses, key, AgentResult(agent, method, args)),
             calls |-> calls]

Raised(st, error) ==
    [status |-> "raised", error |-> error, responses |-> st.responses, calls |-> st.calls]

\* _get_agent_response: the call made for one name of required_agents, its result
\* stored under that name (line 157)
GetAgentResponse(st, fails, agent, request, language, grade_levels, context) ==
    IF agent = "content_generator"
    THEN IF grade_levels = <<>> THEN Raised(st, "IndexError")
         ELSE IF context = None THEN Raised(st, "AttributeError")
         ELSE Invoke(st, fails, agent, "content_generator", "generate_story",
                     [topic |-> request, language |-> language,
                      grade_level |-> grade_levels[1],
                      cultural_context |-> DictGet(context, "cultural_context", None)])
    ELSE IF agent = "knowledge_base"
    THEN IF grade_levels = <<>> THEN Raised(st, "IndexError")
         ELSE Invoke(st, fails, agent, "knowledge_base", "explain_concept",
                     [question |-> request, language |-> language,
                      grade_level |-> grade_levels[1]])
    ELSE IF agent = "visual_aid_generator"
    THEN IF grade_levels = <<>> THEN Raised(st, "IndexError")
         ELSE Invoke(st, fails, agent, "visual_aid_generator", "create_diagram",
                     [concept |-> request, language |-> language,
                      grade_level |-> grade_levels[1]])
    ELSE IF agent = "assessment_planner"
    THEN IF context = None THEN Raised(st, "AttributeError")
         ELSE Invoke(st, fails, agent, "assessment_planner", "create_lesson_plan",
                     [subjects |-> <<DictGet(context, "subject", "general")>>,
                      grade_levels |-> grade_levels, duration_days |-> 5,
                      language |-> language])
    ELSE Raised(st, "ValueError: Unknown agent")

\* _route_request lines 124-152: the call made for the primary intent
RoutePrimary(st, fails, intent, request, language, grade_levels, context) ==
    IF "primary_intent" \notin DOMAIN intent THEN Raised(st, "KeyError")
    ELSE IF intent.primary_intent = "content"
    THEN IF grade_levels = <<>> THEN Raised(st, "IndexError")
         ELSE IF context = None THEN Raised(st, "AttributeError")
         ELSE Invoke(st, fails, "content", "content_generator", "generate_story",
                     [topic |-> request, language |-> language,
                      grade_level |-> grade_levels[1],
                      cultural_context |-> DictGet(context, "cultural_context", None)])
    ELSE IF intent.primary_intent = "knowledge"
    THEN IF grade_levels = <<>> THEN Raised(st, "IndexError")
         ELSE Invoke(st, fails, "explanation", "knowledge_base", "explain_concept",
                     [question |-> request, language |-> language,
                      grade_level |-> grade_levels[1]])
    ELSE IF intent.primary_intent = "visual"
    THEN IF grade_levels = <<>> THEN Raised(st, "IndexError")
         ELSE Invoke(st, fails, "visual", "visual_aid_generator", "create_diagram",
                     [concept |-> request, language |-> language,
                      grade_level |-> grade_levels[1]])
    ELSE IF intent.primary_intent = "assessment"
    THEN IF "parameters" \notin DOMAIN intent THEN Raised(st, "KeyError")
         ELSE Invoke(st, fails, "assessment", "assessment_planner", "create_lesson_plan",
                     [subjects |-> <<DictGet(intent.parameters, "subject", "general")>>,
                      grade_levels |-> grade_levels,
                      duration_days |-> DictGet(intent.parameters, "duration", 5),
                      language |-> language])
    ELSE st

RECURSIVE RouteRequired(_, _, _, _, _, _, _)
\* _route_request lines 155-163: the loop over required_agents, left at the first
\* exception
RouteRequired(st, fails, agents, request, language, grade_levels, context) ==
    IF agents = <<>> \/ st.status = "raised" THEN st
    ELSE LET agent == Head(agents)
             next == IF agent \notin DOMAIN st.responses
                     THEN GetAgentResponse(st, fails, agent, request, language,
                                           grade_levels, context)
                     ELSE st
         IN RouteRequired(next, fails, Tail(agents), request, language, grade_levels,
                          context)

\* GuruAICoordinator._route_request
RouteRequest(fails, intent, request, language, grade_levels, context) ==
    LET start == [status |-> "ok", error |-> "", responses |-> EmptyDict, calls |-> <<>>]
        primary == RoutePrimary(start, fails, intent, request, language, grade_levels,
                                context)
    IN RouteRequired(primary, fails, DictGet(intent, "required_agents", <<>>), request,
                     language, grade_levels, context)

\* GuruAICoordinator.process_request, after _determine_intent gave intent; routed
\* is the language and grade_levels handed to _route_request, None when line 55
\* raises before that
ProcessRequest(fails, intent, request, context) ==
    IF context = None
    THEN [status |-> "raised", error |-> "AttributeError", responses |-> EmptyDict,
          calls |-> <<>>, routed |-> None]
    ELSE LET language == DictGet(context, "language", "english")
             grade_levels == DictGet(context, "grade_levels", <<"5">>)
         IN [routed |-> [language |-> language, grade_levels |-> grade_levels]]
            @@ RouteRequest(fails, intent, request, language, grade_levels, context)

\* process_request(request, context) is called and runs to its return or raise;
\* the model's answer in _determine_intent may also fail (lines 108-109)
CallProcessRequest ==
    /\ coord_request = Unset
    /\ \E context \in Contexts, fails \in FailureSets,
          intent \in Intents \cup {[failed |-> TRUE]} :
        LET done == IF "failed" \in DOMAIN intent
                    THEN [status |-> "raised", error |-> "Error determining intent",
                          responses |-> EmptyDict, calls |-> <<>>, routed |-> None]
                    ELSE ProcessRequest(fails, intent, "request", context)
        IN /\ coord_request' = [request |-> "request", context |-> context,
                                intent |-> intent]
           /\ coord_calls' = done.calls
           /\ coord_result' =
                IF done.status = "ok"
                THEN [status |-> "ok", response |-> done.responses,
                      routed |-> done.routed]
                ELSE [status |-> "raised", error |-> done.error, routed |-> done.routed]
    /\ UNCHANGED coord_frame

\* The caller has the response; the coordinator waits for the next request
CoordReturn ==
    /\ coord_request # Unset
    /\ coord_request' = Unset
    /\ coord_calls' = <<>>
    /\ coord_result' = Unset
    /\ UNCHANGED coord_frame

\* GuruAICoordinator
CoordNext ==
    \/ CallProcessRequest
    \/ CoordReturn

\* The request router
SpecCoordinator == Init /\ [][CoordNext]_vars

\* the specialist of each primary intent
SpecialistOfIntent ==
    [content |-> "content_generator", knowledge |-> "knowledge_base",
     visual |-> "visual_aid_generator", assessment |-> "assessment_planner",
     worksheet |-> "worksheet_processor"]

\* C1 as stated: a request whose primary intent is content, knowledge, visual,
\* assessment or worksheet is dispatched to the specialist of that intent, and the
\* returned response contains that specialist's result.
C1_DispatchByIntent ==
    (/\ coord_request # Unset
     /\ "primary_intent" \in DOMAIN coord_request.intent
     /\ coord_request.intent.primary_intent \in DOMAIN SpecialistOfIntent
     /\ coord_result.status = "ok") =>
        LET specialist == SpecialistOfIntent[coord_request.intent.primary_intent]
        IN /\ \E i \in DOMAIN coord_calls : coord_calls[i].agent = specialist
           /\ \E key \in DOMAIN coord_result.response :
                coord_result.response[key].agent = specialist

\* the request in hand got an intent from _determine_intent
IntentDetermined ==
    /\ coord_request # Unset
    /\ "failed" \notin DOMAIN coord_request.intent

\* C17 as stated: when process_request is called without a context (None) or with
\* a context that lacks language or grade_levels, the request is routed with
\* language 'english' and grade_levels ['5'] in place of what is missing.
C17_DefaultsApplied ==
    IntentDetermined =>
        LET context == coord_request.context
            no_language == context = None \/ "language" \notin DOMAIN context
            no_grade_levels == context = None \/ "grade_levels" \notin DOMAIN context
        IN /\ (no_language \/ no_grade_levels) => coord_result.routed # None
           /\ (no_language /\ coord_result.routed # None) =>
                coord_result.routed.language = "english"
           /\ (no_grade_levels /\ coord_result.routed # None) =>
                coord_result.routed.grade_levels = <<"5">>

\* the agent names _get_agent_response dispatches (lines 179-208); any other
\* name reaches the else branch of line 209
KnownAgents ==
    {"content_generator", "knowledge_base", "visual_aid_generator", "assessment_planner"}

\* how many of the calls of the request in hand went to agent
Invocations(agent) == Cardinality({i \in DOMAIN coord_calls : coord_calls[i].agent = agent})

\* C18 as stated: within one process_request each specialist is invoked at most
\* once, whether it serves the primary intent, is listed in required_agents, or
\* both, or is listed there twice.
C18_AtMostOnce ==
    \A agent \in Specialists : Invocations(agent) <= 1

\* C19 as stated: when a specialist invocation fails, or a name in required_agents
\* is not a known agent, process_request ends with an error and returns no
\* response, not even a partial one.
C19_AllOrNothing ==
    (/\ IntentDetermined
     /\ \/ \E i \in DOMAIN coord_calls : coord_calls[i].raised
        \/ \E i \in DOMAIN DictGet(coord_request.intent, "required_agents", <<>>) :
             coord_request.intent.required_agents[i] \notin KnownAgents) =>
        /\ coord_result.status = "raised"
        /\ "response" \notin DOMAIN coord_result

\* ========================================================================
\* Repeated runs of the rule engine
\* ========================================================================

\* texts given to the rule engine when a run is repeated
DetTexts == {<<"addition">>, <<"fractions">>, <<"plants", "grow.">>}

\* contents and concepts given to adapt_content_for_grade when a run is repeated
DetContents == {<<>>, <<"photosynthesis">>}
DetConcepts == {"addition", "fractions"}

\* grade-level lists given to generate_differentiated_worksheets when a run is repeated
DetGradeLevelLists == {gl \in GradeLevelLists : Len(gl) <= 1}

\* A run [op, args, result] has been made: the first run is remembered, and the
\* result of a later run with the same function and arguments is kept next to it
DetRecord(run) ==
    IF det_first = Unset
    THEN /\ det_first' = run
         /\ det_repeat' = Unset
         /\ det_calls' = 0
    ELSE /\ det_first' = det_first
         /\ det_calls' = IF det_calls < MaxDetCalls THEN det_calls + 1 ELSE det_calls
         /\ det_repeat' = IF det_first.op = run.op /\ det_first.args = run.args
                          THEN [result |-> run.result]
                          ELSE det_repeat

\* analyze_content_complexity(text_content, subject_hint) is run
DetCallAnalyze ==
    /\ \E text \in DetTexts, subject_hint \in {"auto", "language"} :
          DetRecord([op |-> "analyze_content_complexity",
                     args |-> <<text, subject_hint>>,
                     result |-> AnalyzeContentComplexity(text, subject_hint, hash_seed)])
    /\ UNCHANGED <<grade_characteristics, differentiation_rules, hash_seed>>
    /\ UNCHANGED det_frame

\* generate_differentiated_worksheets(content, content_analysis, grade_levels,
\* language_preference) is run; content_analysis is an analysis made by some process
DetCallGenerate ==
    /\ \E text \in {<<"addition">>}, seed \in HashSeeds, gl \in DetGradeLevelLists,
          language_preference \in {"hindi_english", "english"} :
          LET content_analysis == AnalyzeContentComplexity(text, "auto", seed)
          IN DetRecord([op |-> "generate_differentiated_worksheets",
                        args |-> <<text, content_analysis, gl, language_preference>>,
                        result |-> GenerateDifferentiatedWorksheets(
                                        text, content_analysis, gl, language_preference)])
    /\ UNCHANGED <<grade_characteristics, differentiation_rules, hash_seed>>
    /\ UNCHANGED det_frame

\* adapt_content_for_grade(content, concept, grade_level) is run
DetCallAdapt ==
    /\ \E content \in DetContents, concept \in DetConcepts, g \in GradeLevel :
          DetRecord([op |-> "adapt_content_for_grade",
                     args |-> <<content, concept, g>>,
                     result |-> AdaptContentForGrade(grade_characteristics,
                                    differentiation_rules, content, concept, g)])
    /\ UNCHANGED <<grade_characteristics, differentiation_rules, hash_seed>>
    /\ UNCHANGED det_frame

\* The remembered run is dropped; another run can be remembered
DetForget ==
    /\ det_first # Unset
    /\ det_first' = Unset
    /\ det_repeat' = Unset
    /\ det_calls' = 0
    /\ UNCHANGED <<grade_characteristics, differentiation_rules, hash_seed>>
    /\ UNCHANGED det_frame

\* The server process is started again (main.py): the interpreter draws a hash
\* seed and GradeDifferentiationModel.__init__ builds the tables anew
ProcessStart ==
    /\ hash_seed' \in HashSeeds
    /\ grade_characteristics' = InitGradeCharacteristics
    /\ differentiation_rules' = InitDifferentiationRules
    /\ UNCHANGED det_vars
    /\ UNCHANGED det_frame

\* Runs of the three rule-engine functions, in one process or across restarts
DetNext ==
    \/ DetForget
    \/ ProcessStart
    \/ DetCallAnalyze
    \/ DetCallGenerate
    \/ DetCallAdapt

\* The rule engine run repeatedly
SpecDeterminism == Init /\ [][DetNext]_vars

\* C12 as stated: a run of analyze_content_complexity,
\* generate_differentiated_worksheets or adapt_content_for_grade returns a result
\* equal to that of any earlier run with the same inputs.
C12_Deterministic ==
    det_repeat # Unset => det_repeat.result = det_first.result

\* ========================================================================
\* Session store (agents/auth/session.py) on the Firestore collection 'sessions'
\* ========================================================================

\* Strings that the code concatenates are sequences of pieces.
\* The uid claim of the user
UserIds == {<<"u1">>}

\* The ids Firestore generates for document(): alphanumeric, never repeated
AutoIds == <<"a1", "a2">>

\* The session ids a caller may name: a generated id and one that is not
SessionIds == {<<AutoIds[1]>>, <<"s1">>}

\* f"{user_id}_{session_id}" of lines 24, 43 and 79
DocKey(user_id, session_id) == user_id \o <<"_">> \o session_id

\* {**a, **b}: the keys of b override those of a
DictMerge(a, b) ==
    [k \in DOMAIN a \cup DOMAIN b |-> IF k \in DOMAIN b THEN b[k] ELSE a[k]]

\* firestore.ArrayUnion: the elements not yet in the array are appended, in order
RECURSIVE ArrayUnion(_, _)
ArrayUnion(array, elements) ==
    IF elements = <<>> THEN array
    ELSE LET e == Head(elements)
             next == IF \E j \in DOMAIN array : array[j] = e THEN array
                     ELSE Append(array, e)
         IN ArrayUnion(next, Tail(elements))

\* The value of an un-awaited call of an async method
Coroutine(name) == [kind |-> "coroutine", of |-> name]

\* The Firestore client converts every field to a Firestore value before it sends
\* a write and raises TypeError for a Python object it has no conversion for; of
\* the values written here only a coroutine under 'worksheets' is one
Serializable(entry) ==
    "worksheets" \in DOMAIN entry => entry.worksheets.kind # "coroutine"

\* get_session; fs_ok is whether the Firestore call goes through
GetSession(store, user_id, session_id, fs_ok) ==
    LET key == DocKey(user_id, session_id)
    IN IF ~fs_ok THEN None
       ELSE IF key \in DOMAIN store THEN store[key]
       ELSE None

\* The instants stored in created_at, last_updated and expires_at are not
\* followed: each is the value "utcnow".  The timestamp of a history entry is.
\* set_session: set(data, merge=True) creates the document or overwrites the
\* fields of data in it
SetSession(store, user_id, session_id, data, now, fs_ok) ==
    LET key == DocKey(user_id, session_id)
        stamped == DictMerge(data, [last_updated |-> "utcnow",
                                    expires_at |-> "utcnow + 7 days"])
        merged == IF key \in DOMAIN store THEN DictMerge(store[key], stamped) ELSE stamped
    IN IF ~fs_ok THEN [returned |-> FALSE, db |-> store]
       ELSE [returned |-> TRUE,
             db |-> [k \in DOMAIN store \cup {key} |->
                        IF k = key THEN merged ELSE store[k]]]

\* create_conversation_session; n is the number of generated ids handed out so far
CreateConversationSession(store, n, user_id, now, fs_ok) ==
    LET session_id == <<AutoIds[n + 1]>>
        session_data == [user_id |-> user_id,
                         created_at |-> "utcnow",
                         conversation_history |-> <<>>,
                         context |-> EmptyDict,
                         session_id |-> session_id]
    IN IF ~fs_ok THEN [raised |-> TRUE, session_id |-> <<>>, db |-> store]
       ELSE [raised |-> FALSE,
             session_id |-> session_id,
             db |-> [k \in DOMAIN store \cup {session_id} |->
                        IF k = session_id THEN session_data ELSE store[k]]]

\* add_to_conversation_history: update() raises NotFound when the document does
\* not exist; every exception is printed and raised again
AddToConversationHistory(store, user_id, session_id, message, now, fs_ok) ==
    LET key == DocKey(user_id, session_id)
        entry == DictMerge([timestamp |-> now], message)
    IN IF ~fs_ok \/ ~Serializable(entry) \/ key \notin DOMAIN store
       THEN [raised |-> TRUE, db |-> store]
       ELSE LET old == IF "conversation_history" \in DOMAIN store[key]
                       THEN store[key].conversation_history ELSE <<>>
                updated == DictMerge(store[key],
                                [conversation_history |-> ArrayUnion(old, <<entry>>),
                                 last_updated |-> "utcnow"])
            IN [raised |-> FALSE, db |-> [store EXCEPT ![key] = updated]]

\* The messages given to add_to_conversation_history
Messages ==
    {[role |-> "user", content |-> "hi"], [role |-> "assistant", content |-> "namaste"]}

\* The data given to set_session
SessionData == {EmptyDict, [context |-> [language |-> "hindi"]]}

\* whether one more document / one more history entry stays within the bounds
RoomForDoc(key) == key \in DOMAIN db \/ Cardinality(DOMAIN db) < MaxDocs
RoomForEntry(key) ==
    (key \in DOMAIN db /\ "conversation_history" \in DOMAIN db[key]) =>
        Len(db[key].conversation_history) < MaxHistory

\* No call of a session function and no API request is being answered
ServerIdle ==
    /\ sess_call = Unset
    /\ api_request = Unset
    /\ \A p \in Workers : chat_workers[p].pc = "idle"

\* Time passes
Tick ==
    /\ clock < MaxClock
    /\ clock' = clock + 1
    /\ UNCHANGED <<db, auto_ids>>
    /\ UNCHANGED api_vars
    /\ UNCHANGED api_frame

\* create_conversation_session(user_id) is called
SessCreate ==
    /\ ServerIdle
    /\ auto_ids < Len(AutoIds)
    /\ Cardinality(DOMAIN db) < MaxDocs
    /\ \E user_id \in UserIds, fs_ok \in BOOLEAN :
        LET r == CreateConversationSession(db, auto_ids, user_id, clock, fs_ok)
        IN /\ db' = r.db
           /\ sess_call' = [op |-> "create_conversation_session", user_id |-> user_id,
                            session_id |-> r.session_id, fs_ok |-> fs_ok,
                            raised |-> r.raised, result |-> None]
    /\ auto_ids' = auto_ids + 1
    /\ UNCHANGED <<clock, api_request, api_response, db_before>>
    /\ UNCHANGED api_frame

\* get_session(user_id, session_id) is called
SessGet ==
    /\ ServerIdle
    /\ \E user_id \in UserIds, session_id \in SessionIds, fs_ok \in BOOLEAN :
        sess_call' = [op |-> "get_session", user_id |-> user_id,
                      session_id |-> session_id, fs_ok |-> fs_ok, raised |-> FALSE,
                      result |-> GetSession(db, user_id, session_id, fs_ok)]
    /\ UNCHANGED <<db, auto_ids, clock, api_request, api_response, db_before>>
    /\ UNCHANGED api_frame

\* set_session(user_id, session_id, data) is called
SessSet ==
    /\ ServerIdle
    /\ \E user_id \in UserIds, session_id \in SessionIds, data \in SessionData,
          fs_ok \in BOOLEAN :
        LET r == SetSession(db, user_id, session_id, data, clock, fs_ok)
        IN /\ RoomForDoc(DocKey(user_id, session_id))
           /\ db' = r.db
           /\ sess_call' = [op |-> "set_session", user_id |-> user_id,
                            session_id |-> session_id, fs_ok |-> fs_ok, raised |-> FALSE,
                            result |-> [returned |-> r.returned]]
    /\ UNCHANGED <<auto_ids, clock, api_request, api_response, db_before>>
    /\ UNCHANGED api_frame

\* add_to_conversation_history(user_id, session_id, message) is called
SessAdd ==
    /\ ServerIdle
    /\ \E user_id \in UserIds, session_id \in SessionIds, message \in Messages,
          fs_ok \in BOOLEAN :
        LET r == AddToConversationHistory(db, user_id, session_id, message, clock, fs_ok)
        IN /\ RoomForEntry(DocKey(user_id, session_id))
           /\ db' = r.db
           /\ sess_call' = [op |-> "add_to_conversation_history", user_id |-> user_id,
                            session_id |-> session_id, fs_ok |-> fs_ok,
                            raised |-> r.raised,
                            result |-> DictMerge([timestamp |-> clock], message)]
    /\ UNCHANGED <<auto_ids, clock, api_request, api_response, db_before>>
    /\ UNCHANGED api_frame

\* The caller has its answer
SessReturn ==
    /\ sess_call # Unset
    /\ sess_call' = Unset
    /\ UNCHANGED <<db, auto_ids, clock, api_request, api_response, db_before>>
    /\ UNCHANGED api_frame

\* The functions of auth/session.py
SessNext ==
    \/ Tick
    \/ SessReturn
    \/ SessCreate
    \/ SessGet
    \/ SessSet
    \/ SessAdd

\* The session store used through its functions
SpecSession == Init /\ [][SessNext]_vars

\* the sessions that create_conversation_session made for a user: it stores the
\* session data of line 54-66 under the id it returns
CreatedSessions(user_id) ==
    {sid \in SessionIds :
        /\ sid \in DOMAIN db
        /\ "session_id" \in DOMAIN db[sid]
        /\ db[sid].session_id = sid
        /\ db[sid].user_id = user_id}

\* C15 as stated: for a session id s that create_conversation_session(user)
\* returned, get_session(user, s) returns the stored session data whenever the
\* store answers, and add_to_conversation_history(user, s, m) appends m to the
\* history of that session.
C15_CreateGetRoundTrip ==
    (/\ sess_call # Unset
     /\ sess_call.fs_ok
     /\ sess_call.session_id \in CreatedSessions(sess_call.user_id)) =>
        /\ sess_call.op = "get_session" => sess_call.result = db[sess_call.session_id]
        /\ sess_call.op = "add_to_conversation_history" =>
                /\ ~sess_call.raised
                /\ \E j \in DOMAIN db[sess_call.session_id].conversation_history :
                        db[sess_call.session_id].conversation_history[j] = sess_call.result

\* ========================================================================
\* Authentication (agents/auth/firebase_auth.py)
\* ========================================================================

\* The Authorization header of a request: absent, or a string.  A string is the
\* sequence of its pieces; "Bearer " occurs in it only as a whole piece.
AuthorizationHeaders ==
    {[present |-> FALSE, value |-> <<>>]} \cup
    {[present |-> TRUE, value |-> v] :
        v \in {<<>>,
               <<"Bearer ">>,
               <<"Bearer ", "tok1">>,
               <<"Bearer ", "forged">>,
               <<"Basic ", "tok1">>,
               <<"bearer ", "tok1">>,
               <<"Bearer ", "tok1", "Bearer ", "forged">>}}

\* auth.verify_id_token: the ID tokens Firebase accepts and their decoded claims;
\* it raises for every other string
ValidTokens ==
    [t \in {<<"tok1">>} |-> [uid |-> <<"u1">>]]

\* verify_token
VerifyToken(token) ==
    IF token \in DOMAIN ValidTokens THEN ValidTokens[token] ELSE None

\* str.split('Bearer '): the strings between the occurrences of the separator
RECURSIVE SplitBearer(_)
SplitBearer(value) ==
    IF \A j \in DOMAIN value : value[j] # "Bearer " THEN <<value>>
    ELSE LET first == CHOOSE j \in DOMAIN value :
                        /\ value[j] = "Bearer "
                        /\ \A k \in 1..(j - 1) : value[k] # "Bearer "
         IN <<SubSeq(value, 1, first - 1)>>
            \o SplitBearer(SubSeq(value, first + 1, Len(value)))

\* require_auth, lines 37-47: the 401 response, or the decoded token that is put
\* into request.user before the handler runs
RequireAuth(header) ==
    IF \/ ~header.present
       \/ header.value = <<>>
       \/ header.value[1] # "Bearer "
    THEN [status |-> 401, error |-> "No token provided", user |-> None]
    ELSE LET token == SplitBearer(header.value)[2]
             decoded_token == VerifyToken(token)
         IN IF decoded_token = None
            THEN [status |-> 401, error |-> "Invalid token", user |-> None]
            ELSE [status |-> 0, error |-> "", user |-> decoded_token]

\* ========================================================================
\* API routes (agents/api/routes.py)
\* ========================================================================

\* The JSON values a body of POST /chat may hold: null, {} and dicts with or
\* without 'message'
ChatBodies ==
    {None, EmptyDict,
     [context |-> [language |-> "hindi"]],
     [message |-> "hi"],
     [message |-> "hi", context |-> [language |-> "hindi"]]}

\* A request that carries no body at all: zero bytes
NoBody == [empty |-> TRUE]

\* POST /chat as it arrives: whether its Content-Type is a JSON type, and its
\* body; a body sent under another type is not followed further than one case
ChatRequests ==
    {[is_json |-> TRUE, body |-> b] : b \in ChatBodies \cup {NoBody}}
        \cup {[is_json |-> FALSE, body |-> b] : b \in {NoBody, [message |-> "hi"]}}

\* request.get_json() of the pinned Flask 2.0.1 / Werkzeug 2.0.3 (setup.py 8-9):
\* None unless the Content-Type is JSON; otherwise the parsed body, and for a
\* body that does not parse (zero bytes) on_json_loading_failed raises BadRequest
GetJson(req) ==
    IF ~req.is_json THEN [raised |-> FALSE, value |-> None]
    ELSE IF req.body = NoBody THEN [raised |-> TRUE, value |-> None]
    ELSE [raised |-> FALSE, value |-> req.body]

\* request.files and request.form of POST /process-image
Files == {EmptyDict, [image |-> "page.jpg"]}
Forms == {EmptyDict, [grade_levels |-> <<"grade_3", "grade_4">>, subject |-> "science"]}

\* coordinator.generate_content(prompt=..., context=...) of line 69: the class
\* GuruAICoordinator defines no generate_content, so the attribute lookup raises
\* AttributeError
CoordinatorGenerateContent(prompt, context) ==
    [raised |-> TRUE,
     error |-> "'GuruAICoordinator' object has no attribute 'generate_content'",
     value |-> ""]

\* coordinator.process_textbook_image(...) that runs the method and hands back a
\* dictionary of worksheets
MutCoordinatorProcessTextbookImage(image_file, grade_levels, subject, language) ==
    [kind |-> "dict", of |-> "worksheets"]

\* coordinator.process_textbook_image(...) of line 102: an async method called
\* without await returns a coroutine object and runs none of its body
CoordinatorProcessTextbookImage(image_file, grade_levels, subject, language) ==
    Coroutine("GuruAICoordinator.process_textbook_image")

\* create_session, lines 24-32
CreateSessionHandler(store, n, user_id, now, fs_ok) ==
    LET r == CreateConversationSession(store, n, user_id, now, fs_ok)
    IN IF r.raised
       THEN [status |-> 500, body |-> [error |-> "create failed"], db |-> store,
             coordinator_reached |-> FALSE]
       ELSE [status |-> 200,
             body |-> [session_id |-> r.session_id,
                       message |-> "Session created successfully"],
             db |-> r.db, coordinator_reached |-> FALSE]

\* get_session_history, lines 38-45
GetSessionHistoryHandler(store, user_id, session_id, fs_ok) ==
    LET session_data == GetSession(store, user_id, session_id, fs_ok)
    IN IF session_data = None \/ session_data = EmptyDict
       THEN [status |-> 404, body |-> [error |-> "Session not found"], db |-> store,
             coordinator_reached |-> FALSE]
       ELSE [status |-> 200, body |-> session_data, db |-> store,
             coordinator_reached |-> FALSE]

\* chat, lines 51-85; fs_fails holds the numbers of the Firestore calls that fail.
\* The BadRequest of get_json is raised inside the try block and answered by the
\* except branch of lines 84-85.
ChatHandler(store, user_id, session_id, req, now, fs_fails) ==
    LET json == GetJson(req)
        data == json.value
    IN
    IF json.raised
    THEN [status |-> 500, body |-> [error |-> "400 Bad Request"], db |-> store,
          coordinator_reached |-> FALSE]
    ELSE IF data = None \/ data = EmptyDict \/ "message" \notin DOMAIN data
    THEN [status |-> 400, body |-> [error |-> "Message is required"], db |-> store,
          coordinator_reached |-> FALSE]
    ELSE
    LET user_message == data.message
        context == DictGet(data, "context", EmptyDict)
        first == AddToConversationHistory(store, user_id, session_id,
                    [role |-> "user", content |-> user_message], now, 1 \notin fs_fails)
    IN IF first.raised
       THEN [status |-> 500, body |-> [error |-> "history update failed"], db |-> store,
             coordinator_reached |-> FALSE]
       ELSE
       LET response == CoordinatorGenerateContent(user_message, context)
       IN IF response.raised
          THEN [status |-> 500, body |-> [error |-> response.error], db |-> first.db,
                coordinator_reached |-> TRUE]
          ELSE
          LET second == AddToConversationHistory(first.db, user_id, session_id,
                            [role |-> "assistant", content |-> response.value], now,
                            2 \notin fs_fails)
          IN IF second.raised
             THEN [status |-> 500, body |-> [error |-> "history update failed"],
                   db |-> first.db, coordinator_reached |-> TRUE]
             ELSE [status |-> 200,
                   body |-> [response |-> response.value, session_id |-> session_id],
                   db |-> second.db, coordinator_reached |-> TRUE]

\* process_image, lines 91-121; jsonify raises TypeError for a coroutine
ProcessImageHandler(store, user_id, session_id, files, form, now, fs_ok) ==
    IF "image" \notin DOMAIN files
    THEN [status |-> 400, body |-> [error |-> "No image file provided"], db |-> store,
          coordinator_reached |-> FALSE]
    ELSE
    LET worksheets == CoordinatorProcessTextbookImage(
                            files.image,
                            DictGet(form, "grade_levels", <<>>),
                            DictGet(form, "subject", "auto"),
                            DictGet(form, "language", "hindi_english"))
        added == AddToConversationHistory(store, user_id, session_id,
                    [role |-> "system",
                     content |-> "Processed textbook image and generated worksheets",
                     worksheets |-> worksheets], now, fs_ok)
    IN IF added.raised
       THEN [status |-> 500, body |-> [error |-> "history update failed"], db |-> store,
             coordinator_reached |-> TRUE]
       ELSE IF worksheets.kind = "coroutine"
       THEN [status |-> 500, body |-> [error |-> "not JSON serializable"],
             db |-> added.db, coordinator_reached |-> TRUE]
       ELSE [status |-> 200,
             body |-> [worksheets |-> worksheets, session_id |-> session_id],
             db |-> added.db, coordinator_reached |-> TRUE]

\* The response of a route wrapped by require_auth: 401 without running the
\* handler, or what the handler answers (firebase_auth.py 36-50)
Respond(auth, handled) ==
    IF auth.status = 401
    THEN [status |-> 401, body |-> [error |-> auth.error], handler_ran |-> FALSE,
          coordinator_reached |-> FALSE]
    ELSE [status |-> handled.status, body |-> handled.body, handler_ran |-> TRUE,
          coordinator_reached |-> handled.coordinator_reached]

\* POST /api/v1/sessions
ApiCreateSession ==
    /\ ServerIdle
    /\ auto_ids < Len(AutoIds)
    /\ \E header \in AuthorizationHeaders, fs_ok \in BOOLEAN :
        LET auth == RequireAuth(header)
            ran == auth.status = 0
            handled == CreateSessionHandler(db, auto_ids, auth.user.uid, clock, fs_ok)
        IN /\ ran => Cardinality(DOMAIN db) < MaxDocs
           /\ api_request' = [route |-> "POST /sessions", authorization |-> header,
                              session_id |-> <<>>, payload |-> None]
           /\ api_response' = Respond(auth, handled)
           /\ db' = IF ran THEN handled.db ELSE db
           /\ auto_ids' = IF ran THEN auto_ids + 1 ELSE auto_ids
    /\ db_before' = db
    /\ UNCHANGED <<clock, sess_call>>
    /\ UNCHANGED api_frame

\* GET /api/v1/sessions/<session_id>
ApiGetSessionHistory ==
    /\ ServerIdle
    /\ \E header \in AuthorizationHeaders, session_id \in SessionIds, fs_ok \in BOOLEAN :
        LET auth == RequireAuth(header)
            handled == GetSessionHistoryHandler(db, auth.user.uid, session_id, fs_ok)
        IN /\ api_request' = [route |-> "GET /sessions", authorization |-> header,
                              session_id |-> session_id, payload |-> None]
           /\ api_response' = Respond(auth, handled)
    /\ db_before' = db
    /\ UNCHANGED <<db, auto_ids, clock, sess_call>>
    /\ UNCHANGED api_frame

\* POST /api/v1/chat/<session_id>
ApiChat ==
    /\ ServerIdle
    /\ \E header \in AuthorizationHeaders, session_id \in SessionIds,
          data \in ChatRequests, fs_fails \in SUBSET {1, 2} :
        LET auth == RequireAuth(header)
            ran == auth.status = 0
            handled == ChatHandler(db, auth.user.uid, session_id, data, clock, fs_fails)
        IN /\ ran => RoomForEntry(DocKey(auth.user.uid, session_id))
           /\ api_request' = [route |-> "POST /chat", authorization |-> header,
                              session_id |-> session_id, payload |-> data]
           /\ api_response' = Respond(auth, handled)
           /\ db' = IF ran THEN handled.db ELSE db
    /\ db_before' = db
    /\ UNCHANGED <<auto_ids, clock, sess_call>>
    /\ UNCHANGED api_frame

\* POST /api/v1/process-image/<session_id>
ApiProcessImage ==
    /\ ServerIdle
    /\ \E header \in AuthorizationHeaders, session_id \in SessionIds,
          files \in Files, form \in Forms, fs_ok \in BOOLEAN :
        LET auth == RequireAuth(header)
            ran == auth.status = 0
            handled == ProcessImageHandler(db, auth.user.uid, session_id, files, form,
                                           clock, fs_ok)
        IN /\ ran => RoomForEntry(DocKey(auth.user.uid, session_id))
           /\ api_request' = [route |-> "POST /process-image", authorization |-> header,
                              session_id |-> session_id,
                              payload |-> [files |-> files, form |-> form]]
           /\ api_response' = Respond(auth, handled)
           /\ db' = IF ran THEN handled.db ELSE db
    /\ db_before' = db
    /\ UNCHANGED <<auto_ids, clock, sess_call>>
    /\ UNCHANGED api_frame

\* The response has been sent
ApiReturn ==
    /\ api_request # Unset
    /\ api_request' = Unset
    /\ api_response' = Unset
    /\ db_before' = EmptyDict
    /\ UNCHANGED <<db, auto_ids, clock, sess_call>>
    /\ UNCHANGED api_frame

\* The API, and set_session used by other server code to store a session
ApiNext ==
    \/ Tick
    \/ ApiReturn
    \/ SessReturn
    \/ SessSet
    \/ ApiCreateSession
    \/ ApiGetSessionHistory
    \/ ApiChat
    \/ ApiProcessImage

\* The API
SpecApi == Init /\ [][ApiNext]_vars

\* the fields of a session document and of a history entry that hold no worksheet,
\* worksheet section or extracted content
SessionFields ==
    {"user_id", "created_at", "conversation_history", "context", "session_id",
     "last_updated", "expires_at"}
EntryFields == {"timestamp", "role", "content"}

\* the history of a document, [] when it has none
HistoryOf(store, key) ==
    IF key \in DOMAIN store /\ "conversation_history" \in DOMAIN store[key]
    THEN store[key].conversation_history ELSE <<>>

C14_AuthGate ==
    api_request # Unset =>
        LET header == api_request.authorization
            bearer == /\ header.present
                      /\ header.value # <<>>
                      /\ header.value[1] = "Bearer "
            accepted == bearer /\ VerifyToken(Tail(header.value)) # None
        IN /\ api_response.handler_ran <=> accepted
           /\ ~accepted => api_response.status = 401

\* C20 as stated: a POST /chat answered with an error status leaves the
\* conversation history of the session as it was before the request.
C20_ErrorLeavesHistory ==
    (/\ api_request # Unset
     /\ api_request.route = "POST /chat"
     /\ api_response.status >= 400) =>
        \A user_id \in UserIds :
            HistoryOf(db, DocKey(user_id, api_request.session_id))
                = HistoryOf(db_before, DocKey(user_id, api_request.session_id))

\* C21 as stated: a POST /chat whose body is missing or has no 'message', and a
\* POST /process-image without an 'image' file, are answered with 400; the
\* coordinator is not invoked and the stored sessions are as they were.
C21_ValidationNoSideEffects ==
    (/\ api_request # Unset
     /\ api_response.handler_ran
     /\ \/ /\ api_request.route = "POST /chat"
           /\ \/ api_request.payload.body = NoBody
              \/ api_request.payload.body = None
              \/ "message" \notin DOMAIN api_request.payload.body
        \/ /\ api_request.route = "POST /process-image"
           /\ "image" \notin DOMAIN api_request.payload.files) =>
        /\ api_response.status = 400
        /\ ~api_response.coordinator_reached
        /\ db = db_before

\* ========================================================================
\* Chat requests served side by side
\* ========================================================================

\* the 'message' values of the chat requests
ChatMessages == {"hi", "bye"}

\* the session the concurrent chat requests are for
ChatSessionIds == {<<"s1">>}

\* add_to_conversation_history whose update writes the field
\* 'conversation_history': [entry] in place of the ArrayUnion transform
MutAppendUserMessage(store, user_id, session_id, user_message, now, fs_ok) ==
    LET key == DocKey(user_id, session_id)
        entry == [timestamp |-> now, role |-> "user", content |-> user_message]
    IN IF ~fs_ok \/ key \notin DOMAIN store
       THEN [raised |-> TRUE, db |-> store, entry |-> entry]
       ELSE [raised |-> FALSE,
             db |-> [store EXCEPT ![key] =
                        DictMerge(@, [conversation_history |-> <<entry>>,
                                      last_updated |-> "utcnow"])],
             entry |-> entry]

\* chat, lines 62-66: add_to_conversation_history with the user's message; now
\* is the utcnow() the entry was built with, store the collection as it is when
\* Firestore applies the update
AppendUserMessage(store, user_id, session_id, user_message, now, fs_ok) ==
    LET message == [role |-> "user", content |-> user_message]
        r == AddToConversationHistory(store, user_id, session_id, message, now, fs_ok)
    IN [raised |-> r.raised, db |-> r.db,
        entry |-> DictMerge([timestamp |-> now], message)]

\* whether the history under key stays within the bound when one more request
\* appends to it next to those that are being served and have not appended yet
RoomForChat(key) ==
    Len(HistoryOf(db, key))
        + Cardinality({q \in Workers :
                        /\ chat_workers[q].pc \in {"arrived", "stamped"}
                        /\ DocKey(chat_workers[q].user_id, chat_workers[q].session_id) = key})
        < MaxChatHistory

\* A chat request passed require_auth and the check of lines 55-56, and a thread
\* starts on it
ChatArrive(p) ==
    /\ sess_call = Unset
    /\ api_request = Unset
    /\ chat_workers[p].pc = "idle"
    /\ \E user_id \in UserIds, session_id \in ChatSessionIds, content \in ChatMessages :
        /\ RoomForChat(DocKey(user_id, session_id))
        /\ chat_workers' = [chat_workers EXCEPT ![p] =
            [@ EXCEPT !.pc = "arrived", !.user_id = user_id, !.session_id = session_id,
                      !.message = [role |-> "user", content |-> content]]]
    /\ UNCHANGED <<db, clock>>
    /\ UNCHANGED chat_frame

\* add_to_conversation_history builds the entry: datetime.utcnow() is read in the
\* thread (session.py 81-84) before the update is sent
ChatStamp(p) ==
    /\ chat_workers[p].pc = "arrived"
    /\ chat_workers' = [chat_workers EXCEPT ![p] =
            [@ EXCEPT !.pc = "stamped", !.timestamp = clock]]
    /\ UNCHANGED <<db, clock>>
    /\ UNCHANGED chat_frame

\* Firestore applies the update of session.py 80-86 to the document as it is
\* now; a failure is raised again (87-89) and answered with 500 (routes.py 84-85)
ChatUpdate(p) ==
    /\ chat_workers[p].pc = "stamped"
    /\ \E fs_ok \in BOOLEAN :
        LET w == chat_workers[p]
            r == AppendUserMessage(db, w.user_id, w.session_id, w.message.content,
                                   w.timestamp, fs_ok)
        IN /\ db' = r.db
           /\ chat_workers' = [chat_workers EXCEPT ![p] =
                IF r.raised
                THEN [@ EXCEPT !.pc = "responded", !.status = 500]
                ELSE [@ EXCEPT !.pc = "appended", !.appended = <<r.entry>>]]
    /\ UNCHANGED clock
    /\ UNCHANGED chat_frame

\* coordinator.generate_content of routes.py 69-72, and the second append of
\* 75-78 when it returns
ChatGenerate(p) ==
    /\ chat_workers[p].pc = "appended"
    /\ \E fs_ok \in BOOLEAN :
        LET w == chat_workers[p]
            response == CoordinatorGenerateContent(w.message.content, EmptyDict)
            second == AddToConversationHistory(db, w.user_id, w.session_id,
                            [role |-> "assistant", content |-> response.value], clock,
                            fs_ok)
        IN IF response.raised
           THEN /\ db' = db
                /\ chat_workers' = [chat_workers EXCEPT ![p] =
                        [@ EXCEPT !.pc = "responded", !.status = 500]]
           ELSE /\ db' = second.db
                /\ chat_workers' = [chat_workers EXCEPT ![p] =
                        IF second.raised
                        THEN [@ EXCEPT !.pc = "responded", !.status = 500]
                        ELSE [@ EXCEPT !.pc = "responded", !.status = 200,
                                       !.appended = Append(@,
                                            [timestamp |-> clock, role |-> "assistant",
                                             content |-> response.value])]]
    /\ UNCHANGED clock
    /\ UNCHANGED chat_frame

\* The response has been sent and the thread is free
ChatRespond(p) ==
    /\ chat_workers[p].pc = "responded"
    /\ chat_workers' = [chat_workers EXCEPT ![p] = IdleWorker]
    /\ UNCHANGED <<db, clock>>
    /\ UNCHANGED chat_frame

\* Chat requests in two threads, and set_session used by other server code to
\* store a session
ChatNext ==
    \/ Tick
    \/ SessSet
    \/ SessReturn
    \/ \E p \in Workers : ChatArrive(p)
    \/ \E p \in Workers : ChatStamp(p)
    \/ \E p \in Workers : ChatUpdate(p)
    \/ \E p \in Workers : ChatGenerate(p)
    \/ \E p \in Workers : ChatRespond(p)

\* Concurrent chat requests
SpecChat == Init /\ [][ChatNext]_vars

\* C22 as stated: while chat requests for a session are served concurrently,
\* every message that one of them has appended is in the stored conversation
\* history of that session; no append of another request removes it.
C22_NoLostAppend ==
    \A p \in Workers :
        \A i \in DOMAIN chat_workers[p].appended :
            LET w == chat_workers[p]
                history == HistoryOf(db, DocKey(w.user_id, w.session_id))
            IN \E j \in DOMAIN history : history[j] = w.appended[i]

\* two requests for one session are in flight, both have appended, and their
\* messages differ
C22_Witness ==
    /\ chat_workers[1].pc = "appended"
    /\ chat_workers[2].pc = "appended"
    /\ chat_workers[1].session_id = chat_workers[2].session_id
    /\ chat_workers[1].appended # chat_workers[2].appended

====
